---- MODULE Spec2Model ----
(***************************************************************************)
(* Plan lifecycle and safety-gated execution engine of the AI SRE agent:   *)
(* the Executor (actions/execute.py), the AlertDeduplicator (dedup.py) and *)
(* the SREAgent orchestrator (agent.py).                                   *)
(*                                                                         *)
(* Time is counted in ticks of 300 seconds.  Text is a tuple of atoms; the *)
(* atoms of the command and evidence vocabulary are chosen so that Python's *)
(* substring test on characters coincides with the contiguous-subsequence  *)
(* test on atoms.                                                          *)
(***************************************************************************)
EXTENDS Integers, Sequences, FiniteSets, TLC

VARIABLES
    now,                \* datetime.utcnow(), in ticks
    execution_history,  \* Executor.execution_history: list of timestamps
    seen_alerts,        \* AlertDeduplicator.state["seen_alerts"]
    suppress_hours,     \* AlertDeduplicator.suppress_hours (configuration)
    plans_dir,          \* the files of data/plans: the active collection
    history_dir,        \* the files of data/history: the archive
    dry_run,            \* SREAgent.dry_run (configuration)
    last_check,         \* run_daemon: time of the last completed cycle, <<>> before it
    created,            \* number of plans written by analyze_and_plan so far
    pc,                 \* run_daemon: "cycle" or "poll", "dead" once killed
    user_mode,          \* SignalReceiver.user_mode: the mode each sender switched to
    executor_calls,     \* how often this orchestrator called executor.execute, by plan_id
    shell_calls,        \* the times of the watched calls of execute() that ran a command
    ret                 \* the call in progress: its arguments and what it returned

vars == <<now, execution_history, seen_alerts, suppress_hours, plans_dir, history_dir,
          dry_run, last_check, created, pc, user_mode, executor_calls, shell_calls, ret>>

\* the state of the orchestrator's store and configuration
agent_vars ==
    <<plans_dir, history_dir, dry_run, last_check, created, pc, user_mode, executor_calls>>

\* ---------------------------------------------------------------- bounds
MaxTime == 36
MaxCount == 4
MaxPlans == 2
Horizon == 2
MaxSteps == 3

\* ------------------------------------------------------------- constants
OneHour == 12
StaleAge == 1
check_interval == 1
TicksPerDay == 288
DaysPerYear == 365
max_fixes_per_hour == 3

\* Python's None; the atom is not part of any text
None == <<"None">>

\* ------------------------------------------------------------------ text
\* `pat in text` of Python on str
Contains(pat, text) ==
    \E i \in 0..(Len(text) - Len(pat)) : SubSeq(text, i + 1, i + Len(pat)) = pat

SeqsUpTo(S, n) == UNION {[1..k -> S] : k \in 0..n}

\* ------------------------------------------------------- command vocabulary
CmdTrue == <<"true">>
CmdFalse == <<"false">>
CmdRestartWeb == <<"docker ", "restart", " ", "web1">>
CmdRestartDb == <<"docker ", "restart", " ", "db">>
CmdRmRf == <<"rm -rf /", "tmp/cache">>

\* safety.never_restart of the configuration
never_restart == {<<"db">>}

dangerous_patterns ==
    << <<"rm -rf /">>, <<"rm -rf /", "*">>, <<"mkfs">>, <<"> /dev/">>,
       <<"dd if=">>, <<":(){:|:&};:">>, <<"chmod -R 777 /">> >>

\* ------------------------------------------------------------ subprocess
Outcomes == {"ok", "nonzero", "timeout"}

\* what the shell does with a command: `true` and `false` are fixed, any
\* other command ends as the environment decides (o)
ShellOutcome(command, o) ==
    IF command = CmdTrue THEN "ok"
    ELSE IF command = CmdFalse THEN "nonzero"
    ELSE o

\* Executor._run_command
RunCommand(command, o) ==
    LET out == ShellOutcome(command, o) IN
    [success |-> out = "ok",
     return_code |-> IF out = "ok" THEN <<"0">> ELSE IF out = "nonzero" THEN <<"1">> ELSE None,
     error |-> IF out = "ok" THEN None
               ELSE IF out = "nonzero" THEN <<"stderr">>
               ELSE <<"Command timed out">>]

\* ------------------------------------------------------------------ plans
\* the part of a plan dict the Executor reads
Steps(cmds) == [i \in 1..Len(cmds) |-> [step |-> i, command |-> cmds[i]]]

\* steps that have no 'step' key
Unnumbered(cmds) == [i \in 1..Len(cmds) |-> [command |-> cmds[i]]]

\* step.get('step', 0)
StepNum(step) == IF "step" \in DOMAIN step THEN step.step ELSE 0

PrecheckLists ==
    {<<>>, <<CmdTrue>>, <<CmdFalse>>, <<CmdTrue, CmdFalse>>, <<CmdFalse, CmdTrue>>}

PostcheckLists ==
    {<<>>, <<CmdTrue>>, <<CmdFalse>>, <<CmdFalse, CmdTrue>>}

SpecialStepLists ==
    {<<CmdRestartWeb>>, <<CmdTrue, CmdRestartWeb, CmdTrue>>,
     <<None>>, <<CmdTrue, None>>, <<None, CmdFalse>>,
     <<CmdRmRf>>, <<CmdTrue, CmdRmRf>>, <<CmdRmRf, CmdTrue>>, <<None, CmdRmRf>>,
     <<CmdRestartDb>>, <<CmdTrue, CmdRestartDb>>}

StepLists == SeqsUpTo({CmdTrue, CmdFalse}, MaxSteps) \cup SpecialStepLists

RollbackLists == {<<>>, <<"undo">>}

\* a plan whose only step fails and has no number, between checks that pass
FailingStepPlan ==
    [prechecks |-> <<CmdTrue>>, plan |-> Unnumbered(<<CmdFalse>>), postchecks |-> <<CmdTrue>>,
     rollback |-> <<>>]

ExecPlans ==
    {[prechecks |-> pre, plan |-> Steps(cmds), postchecks |-> post, rollback |-> rb] :
        pre \in PrecheckLists, cmds \in StepLists, post \in PostcheckLists,
        rb \in RollbackLists}
      \cup {FailingStepPlan}

\* the environment's decision for every command of a plan that is not fixed
OracleFns(cmds) ==
    {f \in [1..Len(cmds) -> Outcomes] :
        \A i \in 1..Len(cmds) : cmds[i] \in {CmdTrue, CmdFalse, None} => f[i] = "ok"}

Oracles(plan) ==
    {[pre |-> a, step |-> b, post |-> c] :
        a \in OracleFns(plan.prechecks),
        b \in OracleFns([i \in 1..Len(plan.plan) |-> plan.plan[i].command]),
        c \in OracleFns(plan.postchecks)}

\* --------------------------------------------------------------- Executor
\* Executor._check_rate_limit: the cleaned history
CleanHistory(hist, t) == SelectSeq(hist, LAMBDA x : x > t - OneHour)

\* an off-by-one ceiling
WithinRateLimitInclusive(cleaned) == Len(cleaned) <= max_fixes_per_hour

\* Executor._check_rate_limit: the verdict on the cleaned history
WithinRateLimit(cleaned) == Len(cleaned) < max_fixes_per_hour

\* the protected-container test of one command
TargetsProtected(command) ==
    \E container \in never_restart :
        /\ Contains(container, command)
        /\ (Contains(<<"restart">>, command) \/ Contains(<<"stop">>, command))

\* the deny-list test of one command
IsDangerous(command) ==
    \E k \in 1..Len(dangerous_patterns) : Contains(dangerous_patterns[k], command)

FirstPattern(command) ==
    dangerous_patterns[CHOOSE k \in 1..Len(dangerous_patterns) :
        /\ Contains(dangerous_patterns[k], command)
        /\ \A j \in 1..(k - 1) : ~Contains(dangerous_patterns[j], command)]

\* Executor._check_safety, from step i on; `in` on None raises TypeError
RECURSIVE CheckSafetyFrom(_, _)
CheckSafetyFrom(steps, i) ==
    IF i > Len(steps) THEN [raised |-> FALSE, safe |-> TRUE, reason |-> None]
    ELSE LET command == steps[i].command IN
         IF command = None
         THEN [raised |-> TRUE, safe |-> FALSE, reason |-> None]
         ELSE IF TargetsProtected(command)
         THEN [raised |-> FALSE, safe |-> FALSE,
               reason |-> <<"Command targets protected container: ">>
                          \o (CHOOSE c \in never_restart : Contains(c, command))]
         ELSE IF IsDangerous(command)
         THEN [raised |-> FALSE, safe |-> FALSE,
               reason |-> <<"Dangerous command pattern detected: ">>
                          \o FirstPattern(command)]
         ELSE CheckSafetyFrom(steps, i + 1)

CheckSafety(plan) == CheckSafetyFrom(plan.plan, 1)

\* a prechecks loop that notes a failure but goes on to the next precheck
RECURSIVE RunPrechecksNoReturn(_, _, _, _)
RunPrechecksNoReturn(prechecks, i, orc, ran) ==
    IF i > Len(prechecks)
    THEN [failed |-> \E k \in 1..Len(ran) : ran[k].exit # "ok",
          which |-> IF \E k \in 1..Len(ran) : ran[k].exit # "ok"
                    THEN ran[CHOOSE k \in 1..Len(ran) : ran[k].exit # "ok"].command
                    ELSE None,
          ran |-> ran]
    ELSE RunPrechecksNoReturn(prechecks, i + 1, orc,
             Append(ran, [phase |-> "precheck", command |-> prechecks[i],
                          exit |-> ShellOutcome(prechecks[i], orc[i])]))

\* the prechecks loop of Executor.execute, from precheck i on
RECURSIVE RunPrechecks(_, _, _, _)
RunPrechecks(prechecks, i, orc, ran) ==
    IF i > Len(prechecks) THEN [failed |-> FALSE, which |-> None, ran |-> ran]
    ELSE LET precheck == prechecks[i]
             precheck_result == RunCommand(precheck, orc[i])
             ran2 == Append(ran, [phase |-> "precheck", command |-> precheck,
                                 exit |-> ShellOutcome(precheck, orc[i])])
         IN  IF ~precheck_result.success
             THEN [failed |-> TRUE, which |-> precheck, ran |-> ran2]
             ELSE RunPrechecks(prechecks, i + 1, orc, ran2)

\* `if command:` of Python
Truthy(command) == command # None /\ command # <<>>

\* a steps loop without the break after a failed step
RECURSIVE RunStepsNoBreak(_, _, _, _)
RunStepsNoBreak(steps, i, orc, acc) ==
    IF i > Len(steps) THEN acc
    ELSE LET command == steps[i].command
             cmd_result == RunCommand(command, orc[i])
             ok == ~Truthy(command) \/ cmd_result.success
             step_result == [type |-> "step", step |-> StepNum(steps[i]),
                             command |-> command, success |-> ok]
             ran2 == IF Truthy(command)
                     THEN Append(acc.ran, [phase |-> "step", command |-> command,
                                           exit |-> ShellOutcome(command, orc[i])])
                     ELSE acc.ran
         IN  RunStepsNoBreak(steps, i + 1, orc,
                 [acc EXCEPT !.success = acc.success /\ ok,
                             !.error = IF ok THEN acc.error
                                       ELSE <<"Step ", ToString(StepNum(steps[i])), " failed: ">>
                                            \o cmd_result.error,
                             !.steps = Append(acc.steps, step_result),
                             !.ran = ran2,
                             !.rollbacks = IF ok THEN acc.rollbacks ELSE acc.rollbacks + 1])

\* the steps loop of Executor.execute, from step i on; acc is the result so far
RECURSIVE RunSteps(_, _, _, _)
RunSteps(steps, i, orc, acc) ==
    IF i > Len(steps) THEN acc
    ELSE LET step_num == StepNum(steps[i])
             command == steps[i].command
             cmd_result == RunCommand(command, orc[i])
             ok == ~Truthy(command) \/ cmd_result.success
             step_result == [type |-> "step", step |-> step_num, command |-> command,
                             success |-> ok]
             ran2 == IF Truthy(command)
                     THEN Append(acc.ran, [phase |-> "step", command |-> command,
                                           exit |-> ShellOutcome(command, orc[i])])
                     ELSE acc.ran
         IN  IF ~ok
             THEN [acc EXCEPT !.success = FALSE,
                              !.error = <<"Step ", ToString(step_num), " failed: ">>
                                        \o cmd_result.error,
                              !.steps = Append(acc.steps, step_result),
                              !.ran = ran2,
                              !.rollbacks = acc.rollbacks + 1]
             ELSE RunSteps(steps, i + 1, orc,
                           [acc EXCEPT !.steps = Append(acc.steps, step_result),
                                       !.ran = ran2])

\* the postchecks loop of Executor.execute, from postcheck i on
RECURSIVE RunPostchecks(_, _, _, _)
RunPostchecks(postchecks, i, orc, acc) ==
    IF i > Len(postchecks) THEN acc
    ELSE LET postcheck == postchecks[i]
             postcheck_result == RunCommand(postcheck, orc[i])
         IN  RunPostchecks(postchecks, i + 1, orc,
                 [acc EXCEPT !.steps = Append(acc.steps,
                                  [type |-> "postcheck", step |-> 0, command |-> postcheck,
                                   success |-> postcheck_result.success]),
                             !.ran = Append(acc.ran,
                                  [phase |-> "postcheck", command |-> postcheck,
                                   exit |-> ShellOutcome(postcheck, orc[i])])])

\* postchecks that run whatever the steps did
PostchecksAlways(acc) == TRUE

\* `if result['success']:` before the postchecks loop
PostchecksDue(acc) == acc.success

\* what one call of execute() leaves behind: whether it raised, the result
\* dict it returned, the commands it passed to the shell with the way each
\* ended (ran), the number of _rollback calls, and the execution_history
\* afterwards
Outcome(raised, success, error, steps, completed_at, ran, rollbacks, history) ==
    [raised |-> raised,
     result |-> [success |-> success, error |-> error, steps |-> steps,
                 completed_at |-> completed_at],
     ran |-> ran, rollbacks |-> rollbacks, history |-> history]

\* Executor.execute
Execute(plan, hist, t, orc) ==
    LET cleaned == CleanHistory(hist, t) IN
    IF ~WithinRateLimit(cleaned)
    THEN Outcome(FALSE, FALSE, <<"Rate limit exceeded">>, <<>>, <<>>, <<>>, 0, cleaned)
    ELSE
    LET safety_check == CheckSafety(plan) IN
    IF safety_check.raised
    THEN Outcome(TRUE, FALSE, None, <<>>, <<>>, <<>>, 0, cleaned)
    ELSE IF ~safety_check.safe
    THEN Outcome(FALSE, FALSE, <<"Safety check failed: ">> \o safety_check.reason,
                 <<>>, <<>>, <<>>, 0, cleaned)
    ELSE
    LET pre == RunPrechecks(plan.prechecks, 1, orc.pre, <<>>) IN
    IF pre.failed
    THEN Outcome(FALSE, FALSE, <<"Precheck failed: ">> \o pre.which,
                 <<[type |-> "precheck", step |-> 0, command |-> pre.which,
                    success |-> FALSE]>>,
                 <<>>, pre.ran, 0, cleaned)
    ELSE
    LET st == RunSteps(plan.plan, 1, orc.step,
                       [success |-> TRUE, error |-> None, steps |-> <<>>,
                        ran |-> pre.ran, rollbacks |-> 0])
        fin == IF PostchecksDue(st)
               THEN RunPostchecks(plan.postchecks, 1, orc.post, st)
               ELSE st
    IN  Outcome(FALSE, fin.success, fin.error, fin.steps, <<t>>, fin.ran,
                fin.rollbacks, Append(cleaned, t))

\* the times, inside the trailing hour of t, of the calls of execute() that
\* passed a command to the shell, after a call at t that ran the commands
\* ran; no more than max_fixes_per_hour + 1 of them are kept
ShellCalls(calls, ran, t) ==
    LET all == CleanHistory(calls, t) \o (IF ran = <<>> THEN <<>> ELSE <<t>>)
    IN  IF Len(all) > max_fixes_per_hour + 1 THEN Tail(all) ELSE all

\* ------------------------------------------------ the Executor on its own
ExecInit ==
    /\ now = 0
    /\ execution_history = <<>>
    /\ seen_alerts = <<>>
    /\ suppress_hours = 2
    /\ plans_dir = {}
    /\ history_dir = {}
    /\ user_mode = <<>>
    /\ executor_calls = <<>>
    /\ shell_calls = <<>>
    /\ dry_run = FALSE
    /\ last_check = <<>>
    /\ created = 0
    /\ pc = "cycle"
    /\ ret = [op |-> "none"]

\* a caller invokes executor.execute(plan) with one of the plans; a watched
\* call leaves its time in shell_calls if it passed a command to the shell
ExecuteCall(plans, watched) ==
    /\ ret.op = "none"
    /\ \E plan \in plans : \E orc \in Oracles(plan) :
        LET out == Execute(plan, execution_history, now, orc) IN
        /\ execution_history' = out.history
        /\ shell_calls' = IF watched THEN ShellCalls(shell_calls, out.ran, now)
                          ELSE shell_calls
        /\ ret' = [op |-> "execute", plan |-> plan, at |-> now,
                        raised |-> out.raised, result |-> out.result,
                        ran |-> out.ran, rollbacks |-> out.rollbacks]
        /\ UNCHANGED <<now, seen_alerts, suppress_hours, agent_vars>>

ExecCall == ExecuteCall(ExecPlans, FALSE)

\* the caller has taken what the call returned (or the exception it raised)
Return ==
    /\ ret.op # "none"
    /\ ret' = [op |-> "none"]
    /\ UNCHANGED <<now, execution_history, seen_alerts, suppress_hours, agent_vars,
                   shell_calls>>

\* time passes between calls
Tick ==
    /\ ret.op = "none"
    /\ \E d \in {OneHour \div 2, OneHour} :
        /\ now + d <= MaxTime
        /\ now' = now + d
        /\ UNCHANGED <<execution_history, seen_alerts, suppress_hours, agent_vars,
                       shell_calls, ret>>

ExecNext == ExecCall \/ Return \/ Tick

SpecExec == ExecInit /\ [][ExecNext]_vars

\* ------------------------------------------------- claims on the Executor
Called == ret.op = "execute"

CommandsOf(plan) == [i \in 1..Len(plan.plan) |-> plan.plan[i].command]

RanIn(phase) == SelectSeq(ret.ran, LAMBDA r : r.phase = phase)

IsPrefix(s, t) == Len(s) <= Len(t) /\ SubSeq(t, 1, Len(s)) = s

StartsWith(text, head) == IsPrefix(head, text)

\* a command text the safety gate must refuse, as the specification words it
DenyListed(command) ==
    \E pat \in {<<"rm -rf /">>, <<"rm -rf /", "*">>, <<"mkfs">>, <<"> /dev/">>,
                <<"dd if=">>, <<":(){:|:&};:">>, <<"chmod -R 777 /">>} :
        Contains(pat, command)

NamesProtected(command) ==
    /\ \E name \in never_restart : Contains(name, command)
    /\ \E verb \in {<<"restart">>, <<"stop">>} : Contains(verb, command)

HasUnsafeStep(plan) ==
    \E i \in 1..Len(plan.plan) :
        /\ plan.plan[i].command # None
        /\ (DenyListed(plan.plan[i].command) \/ NamesProtected(plan.plan[i].command))

\* C2: when a step's command text holds a deny-listed pattern, or a protected
\* name together with restart or stop, execute() runs nothing (no precheck,
\* no step) and returns a failure whose error is the safety violation.
C2_UnsafePlanRefused ==
    (Called /\ HasUnsafeStep(ret.plan)) =>
        /\ ret.ran = <<>>
        /\ ~ret.raised
        /\ ~ret.result.success
        /\ StartsWith(ret.result.error, <<"Safety check failed: ">>)

\* the entries of the journal inside the trailing hour at time t
InTrailingHour(hist, t) == Cardinality({i \in DOMAIN hist : hist[i] > t - OneHour})

\* C3: with max_fixes_per_hour or more journal entries inside the trailing
\* hour, execute() returns the rate-limited failure, runs no command and
\* leaves the journal as it was; with fewer it is not refused for rate.
C3_RateLimited ==
    [][(ret.op = "none" /\ ret'.op = "execute") =>
         IF InTrailingHour(execution_history, now) >= max_fixes_per_hour
         THEN /\ ~ret'.raised
              /\ ~ret'.result.success
              /\ ret'.result.error = <<"Rate limit exceeded">>
              /\ ret'.ran = <<>>
              /\ ret'.rollbacks = 0
              /\ execution_history' = execution_history
         ELSE ret'.result.error # <<"Rate limit exceeded">>]_vars

C3_Witness ==
    /\ Called
    /\ ret.result.error = <<"Rate limit exceeded">>
    /\ Len(execution_history) = max_fixes_per_hour

\* C4: the steps run in declared order; the first failing step is the last
\* command of the call, _rollback is called exactly once for it and the
\* result is a failure; without a failing step _rollback is not called.
C4_StepsInOrderStopAtFailure ==
    Called =>
        LET stepsRan == RanIn("step")
            declared == SelectSeq(CommandsOf(ret.plan), Truthy)
            n == Len(stepsRan)
        IN  /\ IsPrefix([i \in 1..n |-> stepsRan[i].command], declared)
            /\ \A i \in 1..(n - 1) : stepsRan[i].exit = "ok"
            /\ IF n > 0 /\ stepsRan[n].exit # "ok"
               THEN /\ ret.ran[Len(ret.ran)] = stepsRan[n]
                    /\ ret.rollbacks = 1
                    /\ ~ret.result.success
               ELSE /\ ret.rollbacks = 0
                    /\ (n > 0 => n = Len(declared))

C4_Witness ==
    /\ Called
    /\ CommandsOf(ret.plan) = <<CmdTrue, CmdFalse, CmdTrue>>
    /\ [i \in 1..Len(RanIn("step")) |-> RanIn("step")[i].command] = <<CmdTrue, CmdFalse>>
    /\ ret.rollbacks = 1
    /\ ~ret.result.success

\* C5: a precheck that exits non-zero is the last command of the call: no
\* later precheck, no step and no postcheck runs, and the result is a
\* failure naming that precheck.
C5_PrecheckAborts ==
    Called =>
        \A i \in 1..Len(ret.ran) :
            (ret.ran[i].phase = "precheck" /\ ret.ran[i].exit = "nonzero") =>
                /\ i = Len(ret.ran)
                /\ ~ret.result.success
                /\ ret.result.error = <<"Precheck failed: ">> \o ret.ran[i].command

C5_Witness ==
    /\ Called
    /\ ret.plan.prechecks = <<CmdFalse, CmdTrue>>
    /\ Len(ret.plan.plan) > 0
    /\ Len(ret.ran) = 1
    /\ ret.result.error = <<"Precheck failed: ">> \o CmdFalse

\* C6: postchecks run only after every step of the plan succeeded, and a
\* failing postcheck is recorded in the result while success stays true.
C6_PostchecksAdvisory ==
    (Called /\ RanIn("postcheck") # <<>>) =>
        LET stepEntries == SelectSeq(ret.result.steps, LAMBDA e : e.type = "step")
            postEntries == SelectSeq(ret.result.steps, LAMBDA e : e.type = "postcheck")
        IN  /\ ret.result.success
            /\ ret.result.error = None
            /\ Len(stepEntries) = Len(ret.plan.plan)
            /\ \A i \in 1..Len(stepEntries) : stepEntries[i].success
            /\ Len(postEntries) = Len(RanIn("postcheck"))
            /\ \A i \in 1..Len(postEntries) :
                   /\ postEntries[i].command = RanIn("postcheck")[i].command
                   /\ postEntries[i].success = (RanIn("postcheck")[i].exit = "ok")

C6_Witness ==
    /\ Called
    /\ \E i \in 1..Len(ret.ran) :
           ret.ran[i].phase = "postcheck" /\ ret.ran[i].exit # "ok"
    /\ Len(ret.plan.plan) > 0
    /\ ret.result.success

\* C7: every call of execute() that returns a result, whatever its outcome,
\* appends the time of the call to the rate-limit journal.
C7_EveryCallJournalled ==
    (Called /\ ~ret.raised) =>
        /\ execution_history # <<>>
        /\ execution_history[Len(execution_history)] = ret.at

\* ------------------------------------------------------ AlertDeduplicator
\* an issue dict of a collector; None for a key the issue does not have
Issue(source, type, container, mount, message) ==
    [source |-> source, type |-> type, container |-> container, mount |-> mount,
     service |-> None, unit |-> None, path |-> None, name |-> None,
     message |-> message]

IssueWeb ==
    Issue(<<"docker">>, <<"container_unhealthy">>, <<"web1">>, None,
          <<"container", " ", "web1", " ", "is", " ", "unhealthy">>)

IssueDisk ==
    Issue(<<"system">>, <<"disk_space_low">>, None, <<"/">>,
          <<"disk", " ", "/", " ", "is", " ", "full">>)

Issues == {IssueWeb, IssueDisk}

\* `x or y` of Python on an issue field
Present(v) == v # None /\ v # <<>>

\* str.replace(':', '_').replace('/', '_')
Sanitize(text) ==
    [i \in 1..Len(text) |-> IF text[i] \in {":", "/"} THEN "_" ELSE text[i]]

\* a fingerprint that looks at the mount before the container
fingerprintMountFirst(issue) ==
    LET identifier ==
            IF Present(issue.mount) THEN issue.mount
            ELSE IF Present(issue.container) THEN issue.container
            ELSE IF Present(issue.service) THEN issue.service
            ELSE IF Present(issue.unit) THEN issue.unit
            ELSE IF Present(issue.path) THEN issue.path
            ELSE IF Present(issue.name) THEN issue.name
            ELSE <<"unknown">>
    IN  issue.source \o <<":">> \o issue.type \o <<":">> \o Sanitize(identifier)

\* AlertDeduplicator.fingerprint
fingerprint(issue) ==
    LET identifier ==
            IF Present(issue.container) THEN issue.container
            ELSE IF Present(issue.mount) THEN issue.mount
            ELSE IF Present(issue.service) THEN issue.service
            ELSE IF Present(issue.unit) THEN issue.unit
            ELSE IF Present(issue.path) THEN issue.path
            ELSE IF Present(issue.name) THEN issue.name
            ELSE <<"unknown">>
    IN  issue.source \o <<":">> \o issue.type \o <<":">> \o Sanitize(identifier)

\* datetime.isoformat(): the stored text of a timestamp
IsoFormat(t) == [ok |-> TRUE, t |-> t]

\* a text that datetime.fromisoformat rejects
Corrupt == [ok |-> FALSE, t |-> 0]

\* a window that lies in the past
SuppressWindowPast(hours) == 0 - hours * OneHour

\* timedelta(hours=self.suppress_hours), in ticks
SuppressWindow(hours) == hours * OneHour

\* a window that is never reopened at the moment it has just elapsed
ExpiredInclusive(t, suppressed_until) == t >= suppressed_until

\* `now > suppressed_until`
Expired(t, suppressed_until) == t > suppressed_until

\* an occurrence that is not counted
OccurrenceUncounted(seen, t) == [seen EXCEPT !.last_seen = IsoFormat(t)]

\* "Update last seen and count" of should_alert
Occurrence(seen, t) ==
    [seen EXCEPT !.last_seen = IsoFormat(t), !.count = @ + 1]

\* AlertDeduplicator.should_alert: the state afterwards and the value returned
ShouldAlert(seen_map, issue, t, hours) ==
    LET fp == fingerprint(issue) IN
    IF fp \notin DOMAIN seen_map
    THEN [seen |-> [k \in DOMAIN seen_map \cup {fp} |->
                       IF k = fp
                       THEN [first_seen |-> IsoFormat(t), last_seen |-> IsoFormat(t),
                             count |-> 1,
                             suppressed_until |-> IsoFormat(t + SuppressWindow(hours))]
                       ELSE seen_map[k]],
          result |-> TRUE]
    ELSE LET seen == Occurrence(seen_map[fp], t)
             \* datetime.fromisoformat; an unparsable text counts as now
             suppressed_until == IF seen.suppressed_until.ok
                                 THEN seen.suppressed_until.t
                                 ELSE t
         IN  IF Expired(t, suppressed_until)
             THEN [seen |-> [seen_map EXCEPT ![fp] =
                       [seen EXCEPT !.suppressed_until =
                            IsoFormat(t + SuppressWindow(hours))]],
                   result |-> TRUE]
             ELSE [seen |-> [seen_map EXCEPT ![fp] = seen], result |-> FALSE]

\* a clean-up that drops the records still occurring and keeps the others
ClearResolvedInverted(seen_map, current_issues) ==
    LET current_fps == {fingerprint(i) : i \in current_issues} IN
    [fp \in DOMAIN seen_map \ current_fps |-> seen_map[fp]]

\* AlertDeduplicator.clear_resolved: the state afterwards
ClearResolved(seen_map, current_issues) ==
    LET current_fps == {fingerprint(i) : i \in current_issues} IN
    [fp \in DOMAIN seen_map \cap current_fps |-> seen_map[fp]]

\* ------------------------------------------ the deduplicator on its own
DedupInit ==
    /\ now = 0
    /\ execution_history = <<>>
    /\ seen_alerts = <<>>
    /\ suppress_hours \in {0, 1, 2}
    /\ plans_dir = {}
    /\ history_dir = {}
    /\ user_mode = <<>>
    /\ executor_calls = <<>>
    /\ shell_calls = <<>>
    /\ dry_run = FALSE
    /\ last_check = <<>>
    /\ created = 0
    /\ pc = "cycle"
    /\ ret = [op |-> "none"]

\* a caller invokes deduplicator.should_alert(issue)
ShouldAlertCall ==
    /\ ret.op = "none"
    /\ \E issue \in Issues :
        LET fp == fingerprint(issue)
            out == ShouldAlert(seen_alerts, issue, now, suppress_hours)
        IN  /\ fp \in DOMAIN seen_alerts => seen_alerts[fp].count < MaxCount
            /\ seen_alerts' = out.seen
            /\ ret' = [op |-> "should_alert", issue |-> issue, result |-> out.result]
    /\ UNCHANGED <<now, execution_history, suppress_hours, agent_vars, shell_calls>>

\* a caller invokes deduplicator.clear_resolved(current_issues)
ClearResolvedCall ==
    /\ ret.op = "none"
    /\ \E current \in SUBSET Issues :
        /\ seen_alerts' = ClearResolved(seen_alerts, current)
        \* removed: the keys logged as "Cleared resolved alert"
        /\ ret' = [op |-> "clear_resolved", current |-> current,
                   removed |-> DOMAIN seen_alerts \ DOMAIN seen_alerts']
    /\ UNCHANGED <<now, execution_history, suppress_hours, agent_vars, shell_calls>>

DedupNext == ShouldAlertCall \/ ClearResolvedCall \/ Return \/ Tick

SpecDedup == DedupInit /\ [][DedupNext]_vars

\* ---------------------------------------------- claims on the deduplicator
\* C10: should_alert returns true on the first occurrence of a fingerprint,
\* false on every occurrence while now <= suppressed_until, and true again on
\* the first occurrence after the window has elapsed, which opens a new window
\* of suppress_hours from that moment; so on every call, however many went
\* before.
C10_AlertOncePerWindow ==
    [][(ret.op = "none" /\ ret'.op = "should_alert") =>
         LET fp == fingerprint(ret'.issue)
             fresh == IsoFormat(now + suppress_hours * OneHour)
         IN  IF fp \notin DOMAIN seen_alerts
             THEN /\ ret'.result = TRUE
                  /\ seen_alerts'[fp].suppressed_until = fresh
             ELSE IF now <= seen_alerts[fp].suppressed_until.t
             THEN /\ ret'.result = FALSE
                  /\ seen_alerts'[fp].suppressed_until = seen_alerts[fp].suppressed_until
             ELSE /\ ret'.result = TRUE
                  /\ seen_alerts'[fp].suppressed_until = fresh]_vars

\* the third occurrence re-alerts: the first alerted, the second fell inside
\* the window and was suppressed
C10_Witness ==
    /\ ret.op = "should_alert"
    /\ ret.result = TRUE
    /\ suppress_hours > 0
    /\ LET rec == seen_alerts[fingerprint(ret.issue)] IN
        /\ rec.count = 3
        /\ now = rec.first_seen.t + suppress_hours * OneHour + OneHour \div 2
        /\ rec.suppressed_until = IsoFormat(now + suppress_hours * OneHour)

\* ------------------------------- the deduplicator started on a state file
\* a record of a state file written at time 0
LoadedRecord(suppressed_until) ==
    [first_seen |-> IsoFormat(0), last_seen |-> IsoFormat(0), count |-> 1,
     suppressed_until |-> suppressed_until]

\* _load_state: the "seen_alerts" of the file, none when there is no file;
\* the deadline of a record is whatever text the file holds
StateFiles ==
    {<<>>} \cup
    {[fp \in {fingerprint(i)} |-> LoadedRecord(su)] :
        i \in Issues, su \in {Corrupt, IsoFormat(OneHour)}}

LoadedInit ==
    /\ now = 0
    /\ execution_history = <<>>
    /\ seen_alerts \in StateFiles
    /\ suppress_hours \in {0, 1, 2}
    /\ plans_dir = {}
    /\ history_dir = {}
    /\ user_mode = <<>>
    /\ executor_calls = <<>>
    /\ shell_calls = <<>>
    /\ dry_run = FALSE
    /\ last_check = <<>>
    /\ created = 0
    /\ pc = "cycle"
    /\ ret = [op |-> "none"]

SpecDedupLoaded == LoadedInit /\ [][DedupNext]_vars

\* C11: when the stored suppressed_until of an existing record is unparsable,
\* should_alert treats the deadline as already expired: it returns true and
\* replaces the deadline with a fresh valid one.
C11_CorruptDeadlineFailsOpen ==
    [][(ret.op = "none" /\ ret'.op = "should_alert") =>
         LET fp == fingerprint(ret'.issue) IN
         (fp \in DOMAIN seen_alerts /\ ~seen_alerts[fp].suppressed_until.ok) =>
             /\ ret'.result = TRUE
             /\ seen_alerts'[fp].suppressed_until =
                    IsoFormat(now + suppress_hours * OneHour)]_vars

\* C12: in every state reached through should_alert and clear_resolved, with
\* suppress_hours >= 0, every record has suppressed_until >= last_seen.
C12_DeadlineNotBeforeLastSeen ==
    \A fp \in DOMAIN seen_alerts :
        seen_alerts[fp].suppressed_until.t >= seen_alerts[fp].last_seen.t

\* an occurrence at the very end of its window was suppressed: last_seen has
\* caught up with the deadline
C12_Witness ==
    /\ ret.op = "should_alert"
    /\ ret.result = FALSE
    /\ LET rec == seen_alerts[fingerprint(ret.issue)] IN
        /\ rec.last_seen.t > rec.first_seen.t
        /\ rec.suppressed_until.t = rec.last_seen.t

\* C13: clear_resolved removes exactly the records whose key is not the
\* fingerprint of one of current_issues and leaves every other record as it
\* was; a removed key stays absent until the next should_alert for it, which
\* returns true and starts a new record with count 1.
C13_ClearResolvedFrame ==
    [][/\ (ret.op = "none" /\ ret'.op = "clear_resolved") =>
            LET current_fps == {fingerprint(i) : i \in ret'.current} IN
            /\ DOMAIN seen_alerts' = {fp \in DOMAIN seen_alerts : fp \in current_fps}
            /\ \A fp \in DOMAIN seen_alerts' : seen_alerts'[fp] = seen_alerts[fp]
       /\ \A i \in Issues :
            LET fp == fingerprint(i) IN
            (fp \notin DOMAIN seen_alerts /\ fp \in DOMAIN seen_alerts') =>
                /\ ret'.op = "should_alert"
                /\ fingerprint(ret'.issue) = fp
       /\ (ret.op = "none" /\ ret'.op = "should_alert"
              /\ fingerprint(ret'.issue) \notin DOMAIN seen_alerts) =>
            LET rec == seen_alerts'[fingerprint(ret'.issue)] IN
            /\ ret'.result = TRUE
            /\ rec.count = 1
            /\ rec.first_seen = IsoFormat(now)]_vars

\* clear_resolved has removed one record and kept another, seen twice
C13_Witness ==
    /\ ret.op = "clear_resolved"
    /\ ret.removed # {}
    /\ \E fp \in DOMAIN seen_alerts :
        /\ fp \in {fingerprint(i) : i \in ret.current}
        /\ seen_alerts[fp].count = 2

\* C14: the occurrence that creates a record alerts and counts 1; every later
\* occurrence of the fingerprint inside that first window returns false and
\* adds exactly one to count, and nothing else changes a record that is kept:
\* so after k occurrences inside one window, with no clear in between, exactly
\* one should_alert returned true and count = k.
C14_OneAlertPerWindow ==
    [][/\ (ret.op = "none" /\ ret'.op = "should_alert") =>
            LET fp == fingerprint(ret'.issue) IN
            IF fp \notin DOMAIN seen_alerts
            THEN /\ ret'.result = TRUE
                 /\ seen_alerts'[fp].count = 1
            ELSE (now <= seen_alerts[fp].first_seen.t + suppress_hours * OneHour) =>
                    /\ ret'.result = FALSE
                    /\ seen_alerts'[fp].count = seen_alerts[fp].count + 1
                    /\ seen_alerts'[fp].first_seen = seen_alerts[fp].first_seen
       /\ \A k \in DOMAIN seen_alerts \cap DOMAIN seen_alerts' :
            seen_alerts'[k] # seen_alerts[k] =>
                /\ ret.op = "none"
                /\ ret'.op = "should_alert"
                /\ fingerprint(ret'.issue) = k]_vars

\* three occurrences within one hour with suppress_hours = 2: the third is
\* suppressed and count is 3
C14_Witness ==
    /\ ret.op = "should_alert"
    /\ ret.result = FALSE
    /\ suppress_hours = 2
    /\ LET rec == seen_alerts[fingerprint(ret.issue)] IN
        /\ rec.count = 3
        /\ now <= rec.first_seen.t + OneHour
        /\ rec.suppressed_until = IsoFormat(rec.first_seen.t + 2 * OneHour)

\* ----------------------------------------------- fingerprint on its own
\* issue dicts of the collectors: any of the identifier fields may be
\* missing (None) or empty
IssueDicts ==
    [source : {<<"docker">>, <<"system">>},
     type : {<<"container_unhealthy">>, <<"disk_space_low">>},
     container : {None, <<>>, <<"web1">>, <<"web", ":", "1">>},
     mount : {None, <<"/">>},
     service : {None, <<"nginx">>},
     unit : {None, <<"nginx.service">>},
     path : {None, <<"/", "var">>},
     name : {None, <<"web1">>},
     message : {<<"is", " ", "unhealthy">>, <<"is", " ", "full">>}]

\* a caller invokes deduplicator.fingerprint(issue)
FingerprintCall ==
    /\ ret.op = "none"
    /\ \E issue \in IssueDicts :
        ret' = [op |-> "fingerprint", issue |-> issue, key |-> fingerprint(issue)]
    /\ UNCHANGED <<now, execution_history, seen_alerts, suppress_hours, agent_vars,
                   shell_calls>>

FingerprintNext == FingerprintCall \/ Return

SpecFingerprint == LoadedInit /\ [][FingerprintNext]_vars

\* the identifier fields in their order of priority
IdentifierFields == <<"container", "mount", "service", "unit", "path", "name">>

\* the first present value among the identifier fields, else 'unknown'
FirstPresent(issue) ==
    LET present == {k \in 1..Len(IdentifierFields) :
                        Present(issue[IdentifierFields[k]])}
    IN  IF present = {} THEN <<"unknown">>
        ELSE issue[IdentifierFields[CHOOSE k \in present :
                                        \A m \in present : k <= m]]

\* (source, type, identifier) of an issue, ':' and '/' of the identifier replaced
Triple(issue) == <<issue.source, issue.type, Sanitize(FirstPresent(issue))>>

LowerAtom(a) ==
    IF a = "Container" THEN "container" ELSE IF a = "Disk" THEN "disk"
    ELSE IF a = "MEMORY" THEN "memory" ELSE IF a = "Bank" THEN "bank"
    ELSE IF a = "/SRE" THEN "/sre" ELSE a

Lower(text) == [i \in 1..Len(text) |-> LowerAtom(text[i])]

\* len() of an atom, in characters
CharLen(a) ==
    CASE a \in {" ", "_", "/", ":"} -> 1
      [] a = "is" -> 2
      [] a = "ip" -> 2
      [] a \in {"low", "cpu", "ram"} -> 3
      [] a \in {"web1", "web2", "disk", "full", "bank", "Bank", "your", "/sre", "/SRE", "temp",
                "free"} -> 4
      [] a \in {"space", "usage"} -> 5
      [] a = "on the server right now as soon as you can ok" -> 45
      [] a = "                                              " -> 46
      [] a = "timeout" -> 7
      [] a \in {"container", "Container", "unhealthy"} -> 9
      [] a = "containers" -> 10
      [] a = "healthcheck" -> 11
      [] OTHER -> 6

RECURSIVE WordLen(_)
WordLen(word) == IF word = <<>> THEN 0 ELSE CharLen(Head(word)) + WordLen(Tail(word))

\* str.split(): the maximal runs of atoms between blanks
RECURSIVE SplitFrom(_, _, _, _)
SplitFrom(text, i, cur, acc) ==
    IF i > Len(text) THEN (IF cur = <<>> THEN acc ELSE Append(acc, cur))
    ELSE IF text[i] = " "
    THEN SplitFrom(text, i + 1, <<>>, IF cur = <<>> THEN acc ELSE Append(acc, cur))
    ELSE SplitFrom(text, i + 1, Append(cur, text[i]), acc)

Split(text) == SplitFrom(text, 1, <<>>, <<>>)

FirstN(seq, n) == SubSeq(seq, 1, IF Len(seq) < n THEN Len(seq) ELSE n)

\* the collectors' answer at one moment: a list of issues
IssueLists == {<<>>, <<IssueWeb>>, <<IssueWeb, IssueDisk>>}

\* ------------------------------------------------------------ plan files
\* datetime.now().strftime('%m%d_%H%M%S')
PlanId(t) == <<ToString((t \div TicksPerDay) % DaysPerYear), "_", ToString(t % TicksPerDay)>>

Exists(dir, plan_id) == \E p \in dir : p.plan_id = plan_id

Load(dir, plan_id) == CHOOSE p \in dir : p.plan_id = plan_id

\* open(file, 'w') + json.dump: replaces the file of that name
WriteFile(dir, plan) == {p \in dir : p.plan_id # plan.plan_id} \cup {plan}

Unlink(dir, plan_id) == {p \in dir : p.plan_id # plan_id}

\* what the analysis engine may answer for an evidence bundle: the evidence
\* lines it quotes and the commands it proposes (all with a fixed exit)
Candidate(evidence, prechecks, cmds, postchecks, notification_timestamp) ==
    [evidence |-> evidence, prechecks |-> prechecks, plan |-> Steps(cmds),
     postchecks |-> postchecks, rollback |-> <<>>,
     notification_timestamp |-> notification_timestamp]

EvType(issues) == <<issues[1].type \o <<" ">> \o issues[1].source>>

EvQuote == <<<<"Container", " ", "web1", " ", "is", " ", "unhealthy">>>>

EvOther == <<<<"healthcheck", " ", "timeout">>>>

Candidates(issues) ==
    {Candidate(EvType(issues), <<>>, <<CmdTrue>>, <<CmdTrue>>, <<1>>),
     Candidate(<<>>, <<CmdTrue>>, <<CmdFalse>>, <<>>, <<>>),
     Candidate(EvOther, <<>>, <<None>>, <<>>, <<1>>),
     Candidate(EvQuote, <<>>, <<CmdRmRf>>, <<>>, <<>>)}

\* the exits of a plan whose commands all have a fixed exit
FixedOracle(plan) ==
    [pre |-> [i \in 1..Len(plan.prechecks) |-> "ok"],
     step |-> [i \in 1..Len(plan.plan) |-> "ok"],
     post |-> [i \in 1..Len(plan.postchecks) |-> "ok"]]

\* ---------------------------------------------------- the handler's world
\* the state a handler works on, plus what it did: commands passed to the
\* shell (ran), messages sent (notes), status writes (trans), plans handed to
\* the Executor (executed), what the analysis engine answered each time it was
\* called (asked), and whether an exception left the handler
World ==
    [plans |-> plans_dir, history |-> history_dir, hist |-> execution_history,
     seen |-> seen_alerts, made |-> created,
     ran |-> <<>>, notes |-> <<>>, trans |-> <<>>, executed |-> <<>>, asked |-> <<>>,
     raised |-> FALSE]

Note(w, kind, plan_id) == [w EXCEPT !.notes = Append(@, [kind |-> kind, plan_id |-> plan_id])]

\* the status stored for plan_id before a write
Stored(w, plan_id, fallback) ==
    IF Exists(w.plans, plan_id) THEN Load(w.plans, plan_id).status
    ELSE IF Exists(w.history, plan_id) THEN Load(w.history, plan_id).status
    ELSE fallback

\* SREAgent.approve_plan
ApprovePlan(w, plan_id, t) ==
    IF ~Exists(w.plans, plan_id) THEN [w |-> w, ok |-> FALSE]
    ELSE LET plan == Load(w.plans, plan_id)
             new == [plan EXCEPT !.status = "approved", !.approved_at = <<t>>]
         IN  [w |-> [w EXCEPT !.plans = WriteFile(w.plans, new),
                              !.trans = Append(@, [plan_id |-> plan_id, from |-> plan.status,
                                                   to |-> "approved"])],
              ok |-> TRUE]

\* SREAgent.reject_plan
RejectPlan(w, plan_id, reason, t) ==
    IF ~Exists(w.plans, plan_id) THEN [w |-> w, ok |-> FALSE]
    ELSE LET plan == Load(w.plans, plan_id)
             new == [plan EXCEPT !.status = "rejected", !.rejected_at = <<t>>,
                                 !.rejection_reason = reason]
         IN  [w |-> [w EXCEPT !.history = WriteFile(w.history, new),
                              !.plans = Unlink(w.plans, plan_id),
                              !.trans = Append(@, [plan_id |-> plan_id, from |-> plan.status,
                                                   to |-> "rejected"])],
              ok |-> TRUE]

\* execute_plan after the result is known: the plan is moved to history and
\* the result announced
MoveToHistory(w, done, was, dry, out) ==
    Note([w EXCEPT !.hist = IF dry THEN @ ELSE out.history,
                   !.ran = IF dry THEN @ ELSE @ \o out.ran,
                   !.executed = IF dry THEN @ ELSE Append(@, done.plan_id),
                   !.trans = Append(@, [plan_id |-> done.plan_id,
                                        from |-> Stored(w, done.plan_id, was),
                                        to |-> done.status]),
                   !.history = WriteFile(w.history, done),
                   !.plans = Unlink(w.plans, done.plan_id)],
         "result_" \o done.status, done.plan_id)

\* execute_plan from the result on: out is what executor.execute did (not
\* consulted in a dry run, where the result is a success without steps)
RecordResult(w, plan, t, dry, out) ==
    IF ~dry /\ out.raised
    THEN [w EXCEPT !.hist = out.history, !.raised = TRUE,
                   !.executed = Append(@, plan.plan_id)]
    ELSE MoveToHistory(
            w,
            [plan EXCEPT !.status = IF dry \/ out.result.success THEN "completed" ELSE "failed",
                         !.executed_at = <<t>>,
                         !.result = IF dry
                                    THEN <<[success |-> TRUE, error |-> None, steps |-> <<>>,
                                            dry_run |-> TRUE]>>
                                    ELSE <<[success |-> out.result.success,
                                            error |-> out.result.error,
                                            steps |-> out.result.steps, dry_run |-> FALSE]>>],
            plan.status, dry, out)

\* SREAgent.execute_plan, on the plan dict the caller holds
ExecutePlan(w, plan, t, dry) ==
    RecordResult(w, plan, t, dry, Execute(plan, w.hist, t, FixedOracle(plan)))

\* sorted(plans, key=created_at, reverse=True)
RECURSIVE NewestFirst(_)
NewestFirst(set) ==
    IF set = {} THEN <<>>
    ELSE LET m == CHOOSE p \in set : \A q \in set : q.created_at.t <= p.created_at.t
         IN  <<m>> \o NewestFirst(set \ {m})

\* SREAgent.list_plans
ListPlans(w, status) ==
    LET search_dir == IF status = "pending" THEN w.plans ELSE w.history IN
    NewestFirst({p \in search_dir : status = "all" \/ p.status = status})

\* the plan a command names: the first listed plan whose id equals, starts
\* with or contains the given text; the newest one for no text
Matches(pid, plan_id) == pid = plan_id \/ IsPrefix(plan_id, pid) \/ Contains(plan_id, pid)

\* a resolution that takes the oldest plan when no id is given
ResolveOldest(plans, plan_id) ==
    IF plan_id = None THEN <<plans[Len(plans)]>>
    ELSE IF \E i \in 1..Len(plans) : Matches(plans[i].plan_id, plan_id)
    THEN <<plans[CHOOSE i \in 1..Len(plans) :
                /\ Matches(plans[i].plan_id, plan_id)
                /\ \A j \in 1..(i - 1) : ~Matches(plans[j].plan_id, plan_id)]>>
    ELSE <<>>

Resolve(plans, plan_id) ==
    IF plan_id = None THEN <<plans[1]>>
    ELSE IF \E i \in 1..Len(plans) : Matches(plans[i].plan_id, plan_id)
    THEN <<plans[CHOOSE i \in 1..Len(plans) :
                /\ Matches(plans[i].plan_id, plan_id)
                /\ \A j \in 1..(i - 1) : ~Matches(plans[j].plan_id, plan_id)]>>
    ELSE <<>>

\* a revalidation that takes an empty collection for a failed one
ValidateIssuePersistsFailOpen(plan, current_issues) ==
    IF plan.evidence = <<>> \/ current_issues = <<>> THEN TRUE
    ELSE \E a \in 1..Len(plan.evidence) : \E b \in 1..Len(current_issues) :
            Contains(Lower(current_issues[b].type), Lower(plan.evidence[a]))

\* SREAgent._validate_issue_persists, on the issues collect_evidence returns
ValidateIssuePersists(plan, current_issues) ==
    IF current_issues = <<>> THEN FALSE
    ELSE IF plan.evidence = <<>> THEN TRUE
    ELSE \E a \in 1..Len(plan.evidence) : \E b \in 1..Len(current_issues) :
            LET original_lower == Lower(plan.evidence[a])
                current_msg == Lower(current_issues[b].message)
                current_type == Lower(current_issues[b].type)
                words == FirstN(Split(original_lower), 5)
            IN  \/ Contains(current_type, original_lower)
                \/ \E k \in 1..Len(words) :
                       WordLen(words[k]) > 3 /\ Contains(words[k], current_msg)

\* the age test of _handle_signal_approve
IsStale(plan, t) == t - plan.created_at.t > StaleAge

\* _handle_signal_approve, the answer after execute_plan has returned w
ReportExecution(w, pid) ==
    IF w.raised THEN w
    ELSE IF Load(w.history, pid).result[1].success
    THEN Note(w, "executed", pid)
    ELSE Note(w, "execution_failed", pid)

\* _handle_signal_approve from approve_plan on; ap is what approve_plan did
ExecuteApproved(ap, target_plan, t, dry) ==
    IF ~ap.ok THEN Note(ap.w, "approve_failed", target_plan.plan_id)
    ELSE ReportExecution(ExecutePlan(Note(ap.w, "approved", target_plan.plan_id),
                                     target_plan, t, dry),
                         target_plan.plan_id)

\* _handle_signal_approve once the target plan is known
ApproveTarget(w, target_plan, t, current_issues, dry) ==
    IF IsStale(target_plan, t) /\ ~ValidateIssuePersists(target_plan, current_issues)
    THEN Note(RejectPlan(Note(w, "checking", target_plan.plan_id), target_plan.plan_id,
                         <<"Issue", " ", "resolved", " ", "automatically">>, t).w,
              "resolved", target_plan.plan_id)
    ELSE ExecuteApproved(ApprovePlan(IF IsStale(target_plan, t)
                                     THEN Note(w, "checking", target_plan.plan_id)
                                     ELSE w,
                                     target_plan.plan_id, t),
                         target_plan, t, dry)

\* _handle_signal_approve once the pending plans are listed
ApproveAmong(w, plans, target, plan_id, t, current_issues, dry) ==
    IF plans = <<>> THEN Note(w, "no_pending", None)
    ELSE IF target = <<>> THEN Note(w, "not_found", plan_id)
    ELSE ApproveTarget(w, target[1], t, current_issues, dry)

\* the plan a command is about, among the listed ones
TargetAmong(plans, plan_id) == IF plans = <<>> THEN <<>> ELSE Resolve(plans, plan_id)

\* SREAgent._handle_signal_approve
HandleSignalApprove(w, plan_id, t, current_issues, dry) ==
    ApproveAmong(w, ListPlans(w, "pending"), TargetAmong(ListPlans(w, "pending"), plan_id),
                 plan_id, t, current_issues, dry)

\* _handle_signal_reject from reject_plan on; rj is what reject_plan did
ReportRejection(rj, pid) ==
    IF rj.ok THEN Note(rj.w, "rejected", pid) ELSE Note(rj.w, "reject_failed", pid)

\* _handle_signal_reject once the pending plans are listed
RejectAmong(w, plans, target, plan_id, t) ==
    IF plans = <<>> THEN Note(w, "no_pending", None)
    ELSE IF target = <<>> THEN Note(w, "not_found", plan_id)
    ELSE ReportRejection(RejectPlan(w, target[1].plan_id,
                                    <<"Rejected", " ", "via", " ", "Signal">>, t),
                         target[1].plan_id)

\* SREAgent._handle_signal_reject
HandleSignalReject(w, plan_id, t) ==
    RejectAmong(w, ListPlans(w, "pending"), TargetAmong(ListPlans(w, "pending"), plan_id),
                plan_id, t)

\* SREAgent._has_pending_plan_for_issue: any file of the active directory
\* whose evidence mentions the type
HasPendingPlanForIssue(plans, issue_type) ==
    \E p \in plans : \E a \in 1..Len(p.evidence) : Contains(issue_type, Lower(p.evidence[a]))

\* SREAgent.analyze_and_plan; answer is what analyzer.analyze returns: <<>>
\* for None (no answer, an error, an invalid answer), else <<candidate>>
AnalyzeAndPlan(w, issues, answer, t) ==
    IF issues = <<>> THEN [w |-> w, plan |-> <<>>]
    ELSE IF Present(issues[1].type) /\ HasPendingPlanForIssue(w.plans, issues[1].type)
    THEN [w |-> w, plan |-> <<>>]
    ELSE IF answer = <<>> \/ answer[1].plan = <<>>
    THEN [w |-> [w EXCEPT !.asked = Append(@, answer)], plan |-> <<>>]
    ELSE LET \* the candidate with plan_id, created_at and status set; the
             \* fields later handlers add are absent so far
             plan == [plan_id |-> PlanId(t), status |-> "pending",
                      created_at |-> IsoFormat(t),
                      approved_at |-> <<>>, rejected_at |-> <<>>,
                      rejection_reason |-> None, executed_at |-> <<>>, result |-> <<>>,
                      \* not in the plan file: the issues the analyzer was
                      \* given, kept to tell which issues the plan covers
                      issues |-> issues] @@ answer[1]
         IN  [w |-> [w EXCEPT !.plans = WriteFile(w.plans, plan), !.made = @ + 1,
                              !.asked = Append(@, answer)],
              plan |-> <<plan>>]

\* SREAgent.notify_user
NotifyUser(w, plan) ==
    LET w1 == Note(w, "plan", plan.plan_id) IN
    IF plan.notification_timestamp # <<>>
    THEN [w1 EXCEPT !.plans = WriteFile(w1.plans, plan)]
    ELSE w1

\* _handle_signal_investigate from analyze_and_plan on; an is what it did
Supersede(an, plan_id, t) ==
    IF an.plan # <<>>
    THEN NotifyUser(RejectPlan(an.w, plan_id,
                               <<"Superseded by reinvestigation: ">> \o an.plan[1].plan_id,
                               t).w,
                    an.plan[1])
    ELSE Note(an.w, "remains_pending", plan_id)

\* SREAgent._handle_signal_investigate
HandleSignalInvestigate(w, plan, current_issues, answer, t) ==
    IF current_issues = <<>>
    THEN Note(RejectPlan(Note(w, "reinvestigating", plan.plan_id), plan.plan_id,
                         <<"Issue", " ", "resolved", " ",
                           "- reinvestigation found no problems">>, t).w,
              "resolved", plan.plan_id)
    ELSE Supersede(AnalyzeAndPlan(Note(w, "reinvestigating", plan.plan_id), current_issues,
                                  answer, t),
                   plan.plan_id, t)

\* SREAgent.check_approvals: the approved plans of the active directory
CheckApprovals(w) == {p \in w.plans : p.status = "approved"}

\* the orders in which glob may list a set of files
Orders(set) == {o \in [1..Cardinality(set) -> set] : \A p \in set : \E i \in DOMAIN o : o[i] = p}

\* step 2 of run_once: execute_plan on each approved plan, until one raises
RECURSIVE ExecuteAll(_, _, _, _, _)
ExecuteAll(w, approved_plans, i, t, dry) ==
    IF i > Len(approved_plans) \/ w.raised THEN w
    ELSE ExecuteAll(ExecutePlan(w, approved_plans[i], t, dry), approved_plans, i + 1, t, dry)

\* step 3 of run_once: the issues should_alert lets through, and its state
RECURSIVE FilterIssues(_, _, _, _, _, _)
FilterIssues(seen_map, all_issues, i, t, hours, new_issues) ==
    IF i > Len(all_issues) THEN [seen |-> seen_map, new_issues |-> new_issues]
    ELSE LET out == ShouldAlert(seen_map, all_issues[i], t, hours) IN
         FilterIssues(out.seen, all_issues, i + 1, t, hours,
                      IF out.result THEN Append(new_issues, all_issues[i]) ELSE new_issues)

Range(seq) == {seq[i] : i \in DOMAIN seq}

\* run_once, step 5: an is what analyze_and_plan did
NotifyIfPlanned(an) == IF an.plan # <<>> THEN NotifyUser(an.w, an.plan[1]) ELSE an.w

\* steps 4 and 5 with clear_resolved called on the filtered issues
PlanForNewClearFiltered(w, f, all_issues, answer, t) ==
    IF f.new_issues = <<>>
    THEN [w EXCEPT !.seen = ClearResolved(f.seen, Range(f.new_issues))]
    ELSE NotifyIfPlanned(
            AnalyzeAndPlan([w EXCEPT !.seen = ClearResolved(f.seen, Range(f.new_issues))],
                           f.new_issues, answer, t))

\* run_once, steps 4 and 5: f is what the filter of step 3 gave
PlanForNew(w, f, all_issues, answer, t) ==
    IF f.new_issues = <<>>
    THEN [w EXCEPT !.seen = ClearResolved(f.seen, Range(all_issues))]
    ELSE NotifyIfPlanned(
            AnalyzeAndPlan([w EXCEPT !.seen = ClearResolved(f.seen, Range(all_issues))],
                           f.new_issues, answer, t))

\* run_once, steps 3 to 5: w is the state after the approved plans
AfterApproved(w, all_issues, answer, t, hours) ==
    IF w.raised THEN w
    ELSE PlanForNew(w, FilterIssues(w.seen, all_issues, 1, t, hours, <<>>), all_issues,
                    answer, t)

\* --------------------------------------------------- the agent's process
\* the calls of executor.execute counted so far, and those of one handler
\* added to them
RECURSIVE Tally(_, _)
Tally(calls, executed) ==
    IF executed = <<>> THEN calls
    ELSE Tally((Head(executed) :> (IF Head(executed) \in DOMAIN calls
                                  THEN calls[Head(executed)] + 1 ELSE 1)) @@ calls,
               Tail(executed))

\* what a handler leaves behind: the stored state, and in ret what it did
Commit(op, arg, issues, w) ==
    /\ plans_dir' = w.plans
    /\ history_dir' = w.history
    /\ execution_history' = w.hist
    /\ seen_alerts' = w.seen
    /\ created' = w.made
    /\ executor_calls' = Tally(executor_calls, w.executed)
    /\ shell_calls' = shell_calls
    /\ ret' = [op |-> op, arg |-> arg, issues |-> issues, at |-> now, raised |-> w.raised,
               ran |-> w.ran, notes |-> w.notes, trans |-> w.trans, executed |-> w.executed,
               asked |-> w.asked]

\* collect_evidence was called while handling the command
Collected(w) == \E i \in DOMAIN w.notes : w.notes[i].kind \in {"checking", "reinvestigating"}

\* what a command handler leaves behind; the issues are part of what it did
\* only if it collected evidence
CommitCommand(op, arg, issues, w) ==
    Commit(op, arg, IF Collected(w) THEN issues ELSE <<>>, w)

\* what a monitoring cycle leaves behind
CommitCycle(all_issues, w) ==
    /\ Commit("run_once", None, all_issues, w)
    /\ last_check' = IF w.raised THEN last_check ELSE <<now>>

\* the analysis engine answers with a plan only while plans may still be
\* made, and not twice at one moment
MayPlan == created < MaxPlans /\ \A p \in plans_dir \cup history_dir : p.created_at.t # now

Answers(issues) ==
    {<<>>} \cup (IF MayPlan /\ issues # <<>> THEN {<<c>> : c \in Candidates(issues)} ELSE {})

\* the plan ids a person may type: none, the id of an active plan, its day
\* alone, an id that no active plan has
DayOf(plan_id) == SubSeq(plan_id, 1, 2)

TypedIds ==
    {None, <<"9999", "_", "0">>}
        \cup {p.plan_id : p \in plans_dir}
        \cup {DayOf(p.plan_id) : p \in plans_dir}


AgentInit ==
    /\ now = 0
    /\ execution_history = <<>>
    /\ seen_alerts = <<>>
    /\ suppress_hours = 1
    /\ plans_dir = {}
    /\ history_dir = {}
    /\ user_mode = <<>>
    /\ executor_calls = <<>>
    /\ shell_calls = <<>>
    /\ dry_run \in BOOLEAN
    /\ last_check = <<>>
    /\ created = 0
    /\ pc = "cycle"
    /\ ret = [op |-> "none"]

\* run_daemon: a monitoring cycle (SREAgent.run_once) when one is due; lists
\* are the answers the collectors may give, answers[l] the answers the
\* analyzer may give to the list l; e is the state after the approved plans
\* of step 2, w the state after steps 3 to 5
RunOnceWith(lists, answers) ==
    /\ ret.op = "none"
    /\ pc = "cycle"
    /\ pc' = "poll"
    /\ IF last_check = <<>> THEN TRUE ELSE now - last_check[1] >= check_interval
    /\ \E all_issues \in lists : \E approved_plans \in Orders(CheckApprovals(World)) :
       \E answer \in answers[all_issues] :
        /\ \A fp \in DOMAIN seen_alerts : seen_alerts[fp].count < MaxCount
        /\ \E e \in {ExecuteAll(World, approved_plans, 1, now, dry_run)} :
           \E w \in {AfterApproved(e, all_issues, answer, now, suppress_hours)} :
               CommitCycle(all_issues, w)
    /\ UNCHANGED <<now, suppress_hours, dry_run, user_mode>>

RunOnceOn(lists) == RunOnceWith(lists, [l \in lists |-> Answers(l)])

RunOnce == RunOnceOn(IssueLists)

\* process_signal_commands: an approve command
SignalApprove ==
    /\ ret.op = "none"
    /\ pc = "poll"
    /\ \E plan_id \in TypedIds : \E current_issues \in IssueLists :
        CommitCommand("approve", plan_id, current_issues,
                      HandleSignalApprove(World, plan_id, now, current_issues, dry_run))
    /\ UNCHANGED <<now, suppress_hours, dry_run, user_mode, last_check, pc>>

\* process_signal_commands: a reject command
SignalReject ==
    /\ ret.op = "none"
    /\ pc = "poll"
    /\ \E plan_id \in TypedIds :
        Commit("reject", plan_id, <<>>, HandleSignalReject(World, plan_id, now))
    /\ UNCHANGED <<now, suppress_hours, dry_run, user_mode, last_check, pc>>

Emojis == {"approve", "reject", "investigate", "other"}

\* process_signal_commands: a reaction (SREAgent._handle_signal_reaction) to
\* the message with the given timestamp
SignalReaction ==
    /\ ret.op = "none"
    /\ pc = "poll"
    /\ \E emoji \in Emojis : \E target_timestamp \in {1, 2} :
       \E current_issues \in IssueLists : \E answer \in Answers(current_issues) :
        LET matching == {p \in plans_dir : p.notification_timestamp = <<target_timestamp>>} IN
        IF matching = {} \/ emoji = "other"
        THEN Commit("reaction", None, <<>>, World)
        ELSE \E plan \in matching :
                CASE emoji = "approve" ->
                        CommitCommand("approve", plan.plan_id, current_issues,
                                      HandleSignalApprove(World, plan.plan_id, now,
                                                          current_issues, dry_run))
                  [] emoji = "reject" ->
                        Commit("reject", plan.plan_id, <<>>,
                               HandleSignalReject(World, plan.plan_id, now))
                  [] emoji = "investigate" ->
                        Commit("investigate", plan.plan_id, current_issues,
                               HandleSignalInvestigate(World, plan, current_issues, answer, now))
    /\ UNCHANGED <<now, suppress_hours, dry_run, user_mode, last_check, pc>>

\* main: `approve <plan_id>` from the command line
CliApprove ==
    /\ ret.op = "none"
    /\ \E plan_id \in TypedIds \ {None} :
        Commit("cli_approve", plan_id, <<>>, ApprovePlan(World, plan_id, now).w)
    /\ UNCHANGED <<now, suppress_hours, dry_run, user_mode, last_check, pc>>

\* main: `reject <plan_id>` from the command line, without --reason
CliReject ==
    /\ ret.op = "none"
    /\ \E plan_id \in TypedIds \ {None} :
        Commit("cli_reject", plan_id, <<>>, RejectPlan(World, plan_id, <<>>, now).w)
    /\ UNCHANGED <<now, suppress_hours, dry_run, user_mode, last_check, pc>>

\* five minutes pass while the daemon sleeps or polls
Wait ==
    /\ ret.op = "none"
    /\ pc = "poll"
    /\ now + 1 <= Horizon
    /\ now' = now + 1
    /\ pc' = "cycle"
    /\ UNCHANGED <<execution_history, seen_alerts, suppress_hours, plans_dir, history_dir,
                   dry_run, user_mode, last_check, created, executor_calls, shell_calls,
                   ret>>

\* the ticks of a year
OneYear == TicksPerDay * DaysPerYear

\* run_daemon through a quiet year: no command arrives and every cycle finds
\* no issue and no approved plan, so that it only empties the deduplicator
QuietYear ==
    /\ ret.op = "none"
    /\ pc = "poll"
    /\ now <= Horizon
    /\ \A p \in plans_dir : p.status # "approved"
    /\ now' = now + OneYear
    /\ pc' = "cycle"
    /\ seen_alerts' = <<>>
    /\ last_check' = <<now + OneYear - check_interval>>
    /\ UNCHANGED <<execution_history, suppress_hours, plans_dir, history_dir,
                   dry_run, user_mode, created, executor_calls, shell_calls, ret>>

Next ==
    \/ RunOnce
    \/ SignalApprove
    \/ SignalReject
    \/ SignalReaction
    \/ CliApprove
    \/ CliReject
    \/ Return
    \/ Wait

Spec == AgentInit /\ [][Next]_vars

\* ------------------------------------------------ the monitoring cycles
\* a second unhealthy container
IssueWeb2 ==
    Issue(<<"docker">>, <<"container_unhealthy">>, <<"web2">>, None,
          <<"container", " ", "web2", " ", "is", " ", "unhealthy">>)

WideIssueLists == {<<>>, <<IssueWeb>>, <<IssueWeb2>>, <<IssueWeb, IssueDisk>>}

\* a monitoring cycle on a host with two containers
RunOnceWide == RunOnceOn(WideIssueLists)

\* the daemon's cycles, with approvals from the command line in between
CyclesNext == RunOnceWide \/ CliApprove \/ Return \/ Wait

SpecCycles == AgentInit /\ [][CyclesNext]_vars

\* ------------------------------------------- the plan store over the years
\* the daemon and the command line, seen from one year to the next
\* the status filters list_plans is called with
ListFilters == {"pending", "approved", "rejected", "completed", "failed", "all"}

\* a caller (main's `list`, a command handler) invokes list_plans(status)
ListPlansCall ==
    /\ ret.op = "none"
    /\ \E status \in ListFilters :
        ret' = [op |-> "list", arg |-> status, listed |-> ListPlans(World, status)]
    /\ UNCHANGED <<now, execution_history, seen_alerts, suppress_hours, agent_vars,
                   shell_calls>>

YearsNext ==
    RunOnce \/ CliApprove \/ CliReject \/ ListPlansCall \/ Return \/ QuietYear

SpecYears == AgentInit /\ [][YearsNext]_vars

\* --------------------------------------------- claims on the orchestrator
Handled(op) == ret.op = "none" /\ ret'.op = op

LegalTransitions ==
    {<<"pending", "approved">>, <<"approved", "completed">>, <<"approved", "failed">>,
     <<"pending", "rejected">>}

Transition(plan_id, from, to) == [plan_id |-> plan_id, from |-> from, to |-> to]

\* the pending plan an approve command with this text is about, <<>> for none
TargetOf(plan_id) ==
    LET plans == ListPlans(World, "pending") IN
    IF plans = <<>> THEN <<>> ELSE Resolve(plans, plan_id)

OlderThanFiveMinutes(plan) == now - plan.created_at.t > StaleAge

\* the plan's evidence and the fresh issues overlap by type or by keyword
Overlaps(evidence, issues) ==
    \E a \in 1..Len(evidence) : \E b \in 1..Len(issues) :
        \/ Contains(Lower(issues[b].type), Lower(evidence[a]))
        \/ \E k \in 1..Len(FirstN(Split(Lower(evidence[a])), 5)) :
              LET word == Split(Lower(evidence[a]))[k] IN
              WordLen(word) > 3 /\ Contains(word, Lower(issues[b].message))

Archived(plan_id) == {p \in history_dir' : p.plan_id = plan_id}

Active(plan_id) == {p \in plans_dir' : p.plan_id = plan_id}

Notified(kind, plan_id) ==
    \E i \in DOMAIN ret'.notes : ret'.notes[i] = [kind |-> kind, plan_id |-> plan_id]

AutoRejected(plan) ==
    /\ Active(plan.plan_id) = {}
    /\ \E p \in Archived(plan.plan_id) :
          /\ p.status = "rejected"
          /\ Contains(<<"resolved">>, p.rejection_reason)
          /\ p.rejected_at = <<now>>
    /\ ret'.ran = <<>>
    /\ ret'.executed = <<>>
    /\ ret'.trans = <<Transition(plan.plan_id, "pending", "rejected")>>
    /\ execution_history' = execution_history

\* C1: every status change that any operation writes is one of
\* pending->approved, approved->completed, approved->failed, pending->rejected;
\* no operation changes the status of an approved plan to approved or
\* rejected, nor that of a rejected, completed or failed plan.
C1_OnlyLegalTransitions ==
    ret.op \in {"run_once", "approve", "reject", "investigate", "reaction",
                "cli_approve", "cli_reject"}
        => \A i \in DOMAIN ret.trans :
              <<ret.trans[i].from, ret.trans[i].to>> \in LegalTransitions

\* C8 as stated: an approve command for a pending plan created more than five
\* minutes ago, when the fresh issues are empty or do not overlap the plan's
\* evidence, rejects the plan with a reason saying "resolved", archives it,
\* runs no command and never writes status approved.
C8_StaleUnconfirmedRejected ==
    [][Handled("approve") /\ TargetOf(ret'.arg) # <<>>
           => LET plan == TargetOf(ret'.arg)[1] IN
              OlderThanFiveMinutes(plan)
                  /\ (ret'.issues = <<>> \/ ~Overlaps(plan.evidence, ret'.issues))
                  => AutoRejected(plan)]_vars

\* C8, amended: the same, for a plan that quotes at least one line of evidence.
C8_StaleUnconfirmedWithEvidenceRejected ==
    [][Handled("approve") /\ TargetOf(ret'.arg) # <<>>
           => LET plan == TargetOf(ret'.arg)[1] IN
              OlderThanFiveMinutes(plan) /\ plan.evidence # <<>>
                  /\ (ret'.issues = <<>> \/ ~Overlaps(plan.evidence, ret'.issues))
                  => AutoRejected(plan)]_vars

\* an approve command has just rejected a stale plan whose evidence no longer
\* overlaps the issues that are still present
C8_Witness ==
    /\ ret.op = "approve"
    /\ ret.issues # <<>>
    /\ \E p \in history_dir :
          /\ ret.trans = <<Transition(p.plan_id, "pending", "rejected")>>
          /\ p.status = "rejected"
          /\ p.rejected_at = <<ret.at>>
          /\ p.evidence # <<>>
          /\ ret.at - p.created_at.t > StaleAge
          /\ ~Overlaps(p.evidence, ret.issues)

\* C9: an approve command for a pending plan that is at most five minutes old,
\* or older with evidence that still overlaps the fresh issues, writes status
\* approved, hands the plan to the Executor (unless the agent runs dry), writes
\* completed if the result is a success and failed otherwise, removes the plan
\* from the active directory, archives it and sends the result notification,
\* all before the command is done.
C9_ApproveRunsToTheEnd ==
    [][Handled("approve") /\ TargetOf(ret'.arg) # <<>>
           => LET plan == TargetOf(ret'.arg)[1]
                  pid == plan.plan_id
              IN  ~OlderThanFiveMinutes(plan) \/ Overlaps(plan.evidence, ret'.issues)
                  => /\ Active(pid) = {}
                     /\ ~dry_run => ret'.executed = <<pid>>
                     /\ \E p \in Archived(pid) :
                           /\ p.status \in {"completed", "failed"}
                           /\ p.result # <<>>
                           /\ p.status = "completed" <=> p.result[1].success
                           /\ ret'.trans = <<Transition(pid, "pending", "approved"),
                                             Transition(pid, "approved", p.status)>>
                           /\ Notified("result_" \o p.status, pid)]_vars


\* the issue signatures a plan covers: the fingerprints of the issues it was
\* made for
Covers(plan) == {fingerprint(plan.issues[k]) : k \in DOMAIN plan.issues}

\* C16: at no time do two active plans (pending or approved) cover the same
\* issue signature.
C16_OneActivePlanPerIssue ==
    \A p \in plans_dir : \A q \in plans_dir \ {p} : Covers(p) \cap Covers(q) = {}


\* the numbers that strftime('%m%d_%H%M%S') prints: the day of the year and
\* the time of the day
Stamp(t) == <<(t \div TicksPerDay) % DaysPerYear, t % TicksPerDay>>

\* the order of two plan ids as texts
StampBefore(a, b) == a[1] < b[1] \/ (a[1] = b[1] /\ a[2] < b[2])

\* C17: every plan gets a plan_id that differs from the id of every other
\* plan ever created, active or archived, and the ids order the plans by
\* creation time.
C17_PlanIdsUniqueAndOrdered ==
    \A p \in plans_dir \cup history_dir : \A q \in plans_dir \cup history_dir :
        p.created_at.t < q.created_at.t =>
            /\ p.plan_id # q.plan_id
            /\ StampBefore(Stamp(p.created_at.t), Stamp(q.created_at.t))


ActiveStatuses == {"pending", "approved"}

TerminalStatuses == {"rejected", "completed", "failed"}

\* C18: between operations each plan is stored in exactly one place, the one
\* that matches its status: pending and approved plans in the active set
\* only, rejected, completed and failed plans in the archive only; and every
\* transition to a terminal status moves the plan from the active set to the
\* archive.
C18_OnePlaceMatchingStatus ==
    [][/\ \A p \in plans_dir' : p.status \in ActiveStatuses
       /\ \A p \in history_dir' : p.status \in TerminalStatuses
       /\ \A p \in plans_dir' : \A q \in history_dir' : p.plan_id # q.plan_id
       /\ \A p \in plans_dir \cup history_dir :
            \E q \in plans_dir' \cup history_dir' :
                q.plan_id = p.plan_id /\ q.created_at = p.created_at
       /\ (ret.op = "none" /\ ret'.op \notin {"none", "list"}) =>
            \A i \in DOMAIN ret'.trans :
                ret'.trans[i].to \in TerminalStatuses =>
                    /\ Active(ret'.trans[i].plan_id) = {}
                    /\ \E p \in Archived(ret'.trans[i].plan_id) :
                          p.status = ret'.trans[i].to]_vars

\* C19: once a plan record is archived, no later operation modifies,
\* overwrites or deletes it, and a plan is archived at most once.
C19_ArchiveImmutable ==
    [][/\ \A h \in history_dir : h \in history_dir'
       /\ \A n \in history_dir' \ history_dir :
            \A h \in history_dir : h.plan_id # n.plan_id]_vars


\* C20: list_plans(status) returns exactly the stored plans whose status
\* equals the filter, for each of pending, approved, rejected, completed and
\* failed, and every stored plan, active and archived, for 'all'; the newest
\* created_at comes first.
C20_ListPlansByStatus ==
    ret.op = "list" =>
        /\ Range(ret.listed) =
              {p \in plans_dir \cup history_dir : ret.arg = "all" \/ p.status = ret.arg}
        /\ \A i \in DOMAIN ret.listed : \A j \in DOMAIN ret.listed :
              i < j => ret.listed[i].created_at.t > ret.listed[j].created_at.t


\* the issue passes the deduplicator at this moment: it is new, or its
\* suppression window has elapsed
Passes(issue) ==
    LET fp == fingerprint(issue) IN
    fp \notin DOMAIN seen_alerts \/ now > seen_alerts[fp].suppressed_until.t

\* the signatures of the issues of the cycle that pass the deduplicator
PassingSignatures(issues) == {fingerprint(i) : i \in {j \in Range(issues) : Passes(j)}}

\* C21: in every evidence cycle in which at least one issue passes the
\* deduplicator and no passing issue is covered by an active plan, a candidate
\* is requested from the analysis engine; a candidate that comes back with at
\* least one step is stored as a pending plan and announced by a plan
\* notification in that cycle.
C21_NewIssuePlanned ==
    [][(Handled("run_once") /\ ~ret'.raised) =>
         ((PassingSignatures(ret'.issues) # {}
              /\ \A p \in plans_dir : Covers(p) \cap PassingSignatures(ret'.issues) = {})
          => /\ ret'.asked # <<>>
             /\ (ret'.asked[1] # <<>> /\ ret'.asked[1][1].plan # <<>>) =>
                    \E p \in plans_dir' :
                        /\ p.status = "pending"
                        /\ p.created_at = IsoFormat(now)
                        /\ p.plan = ret'.asked[1][1].plan
                        /\ Notified("plan", p.plan_id))]_vars


\* the issues of the cycle that pass the deduplicator, in their order
PassingList(issues) == SelectSeq(issues, Passes)

\* the plans a cycle has just created
CreatedNow == {p \in plans_dir' : p.created_at = IsoFormat(now)}

\* C22: one evidence cycle executes every approved plan it finds in the
\* store, then filters the issues through should_alert, calls clear_resolved
\* on the full current issue set, and only then requests and stores a new
\* plan: the new plan is made for the issues that passed, is not blocked by a
\* plan executed in this cycle, and is not executed in this cycle. A cycle
\* that an exception of the Executor ends stops in the execution phase:
\* nothing is filtered and no plan is made.
C22_CyclePhases ==
    [][Handled("run_once") =>
         IF ret'.raised
         THEN seen_alerts' = seen_alerts /\ created' = created
         ELSE /\ \A p \in plans_dir :
                    p.status = "approved" =>
                        /\ Active(p.plan_id) = {}
                        /\ \E q \in Archived(p.plan_id) :
                              /\ q.status \in {"completed", "failed"}
                              /\ q.executed_at = <<now>>
              /\ {ret'.trans[i].plan_id : i \in DOMAIN ret'.trans} =
                    {p.plan_id : p \in {q \in plans_dir : q.status = "approved"}}
              /\ DOMAIN seen_alerts' = {fingerprint(i) : i \in Range(ret'.issues)}
              /\ \A i \in Range(ret'.issues) :
                    ~Passes(i) => seen_alerts'[fingerprint(i)].count =
                                      seen_alerts[fingerprint(i)].count + 1
              /\ (ret'.asked = <<>> /\ PassingList(ret'.issues) # <<>>) =>
                    HasPendingPlanForIssue({p \in plans_dir : p.status = "pending"},
                                           PassingList(ret'.issues)[1].type)
              /\ \A p \in CreatedNow :
                    /\ p.status = "pending"
                    /\ p.executed_at = <<>>
                    /\ p.issues = PassingList(ret'.issues)
                    /\ \A i \in DOMAIN ret'.trans : ret'.trans[i].plan_id # p.plan_id
                    /\ \A i \in DOMAIN ret'.executed : ret'.executed[i] # p.plan_id]_vars

\* a cycle has executed an approved plan whose evidence names the type of the
\* issue that passed, and has then stored a new pending plan for that issue
C22_Witness ==
    /\ ret.op = "run_once"
    /\ ~ret.raised
    /\ \E q \in history_dir : \E p \in plans_dir :
        /\ ret.trans = <<Transition(q.plan_id, "approved", "completed")>>
        /\ q.executed_at = <<ret.at>>
        /\ p.created_at = IsoFormat(ret.at)
        /\ p.status = "pending"
        /\ HasPendingPlanForIssue({q}, p.issues[1].type)


\* the pending plans before the command
PendingPlans == {p \in plans_dir : p.status = "pending"}

\* the typed text names the plan: its id equals the text, starts with it or
\* contains it
Names(text, plan) ==
    plan.plan_id = text \/ IsPrefix(text, plan.plan_id) \/ Contains(text, plan.plan_id)

\* the plans whose status the command has written
Touched == {ret'.trans[i].plan_id : i \in DOMAIN ret'.trans}

\* C23: for approve and reject commands an omitted plan id resolves to the
\* pending plan with the greatest created_at, and a supplied id to a pending
\* plan whose plan_id equals it, starts with it or contains it; if no pending
\* plan matches, no plan's state changes.
C23_CommandTarget ==
    [][(Handled("approve") \/ Handled("reject")) =>
         IF ret'.arg = None /\ PendingPlans # {}
         THEN \E p \in PendingPlans :
                /\ \A q \in PendingPlans : q.created_at.t <= p.created_at.t
                /\ Touched = {p.plan_id}
         ELSE IF \E p \in PendingPlans : Names(ret'.arg, p)
         THEN \E p \in PendingPlans : Names(ret'.arg, p) /\ Touched = {p.plan_id}
         ELSE /\ plans_dir' = plans_dir
              /\ history_dir' = history_dir
              /\ ret'.trans = <<>>
              /\ ret'.ran = <<>>]_vars

\* an approve command without an id has taken the newer of two pending plans
C23_Witness ==
    /\ ret.op = "approve"
    /\ ret.arg = None
    /\ ret.trans # <<>>
    /\ \E older \in plans_dir : \E p \in plans_dir \cup history_dir :
        /\ older.status = "pending"
        /\ p.plan_id = ret.trans[1].plan_id
        /\ older.created_at.t < p.created_at.t


\* ------------------------------------------------------- reinvestigation
\* C24: reinvestigating a plan rejects it as resolved when the fresh evidence
\* has no issue; with issues present a fresh candidate is requested, the old
\* plan is rejected with a reason naming the new plan's id, the new plan is
\* stored pending and notified, and the old plan is no longer active.
C24_Reinvestigate ==
    [][Handled("investigate") =>
         IF ret'.issues = <<>>
         THEN /\ Active(ret'.arg) = {}
              /\ \E h \in Archived(ret'.arg) :
                    /\ h.status = "rejected"
                    /\ h.rejection_reason = <<"Issue", " ", "resolved", " ",
                                              "- reinvestigation found no problems">>
         ELSE /\ ret'.asked # <<>>
              /\ Active(ret'.arg) = {}
              /\ \E n \in plans_dir' :
                    /\ n.status = "pending"
                    /\ n.created_at = IsoFormat(now)
                    /\ Notified("plan", n.plan_id)
                    /\ \E h \in Archived(ret'.arg) :
                          /\ h.status = "rejected"
                          /\ h.rejection_reason =
                                <<"Superseded by reinvestigation: ">> \o n.plan_id]_vars

\* the part of C24 about a reinvestigation that finds no issue
C24_ResolvedPart ==
    [][(Handled("investigate") /\ ret'.issues = <<>>) =>
         /\ Active(ret'.arg) = {}
         /\ \E h \in Archived(ret'.arg) : h.status = "rejected"]_vars

\* the part of C24 about a reinvestigation whose analysis gave a plan
C24_SupersededPart ==
    [][(Handled("investigate") /\ created' # created) =>
         /\ Active(ret'.arg) = {}
         /\ \E n \in plans_dir' : \E h \in Archived(ret'.arg) :
               /\ n.status = "pending"
               /\ Notified("plan", n.plan_id)
               /\ h.rejection_reason = <<"Superseded by reinvestigation: ">> \o n.plan_id]_vars

\* a reinvestigation was handled with issues present and the plan it was
\* about is still active
C24_StillActive ==
    /\ ret.op = "investigate"
    /\ ret.issues # <<>>
    /\ \E p \in plans_dir : p.plan_id = ret.arg

\* the same, and the analyzer was not even asked
C24_NotAsked == C24_StillActive /\ ret.asked = <<>>


\* ------------------------------------------------ archived and announced
\* the operation told the person what became of the plan: the result of its
\* execution, its rejection, its dismissal as resolved, or the plan that
\* replaces it
Announced(tr) ==
    \/ tr.to \in {"completed", "failed"} /\ Notified("result_" \o tr.to, tr.plan_id)
    \/ tr.to = "rejected" /\ Notified("rejected", tr.plan_id)
    \/ tr.to = "rejected" /\ Notified("resolved", tr.plan_id)
    \/ /\ tr.to = "rejected"
       /\ \E h \in Archived(tr.plan_id) : \E n \in plans_dir' :
            /\ h.rejection_reason = <<"Superseded by reinvestigation: ">> \o n.plan_id
            /\ Notified("plan", n.plan_id)

\* the operation made this transition to rejected, completed or failed
Terminated(tr) ==
    /\ ret.op = "none"
    /\ ret'.op # "none"
    /\ \E i \in DOMAIN ret'.trans : ret'.trans[i] = tr
    /\ tr.to \in TerminalStatuses

\* C25: every transition of a plan to rejected, completed or failed, on
\* every path, is followed by the plan being archived and by an announcement
\* of the outcome on the notification channel.
C25_ArchivedAndAnnounced ==
    [][\A tr \in [plan_id : {p.plan_id : p \in plans_dir}, from : ActiveStatuses,
                  to : TerminalStatuses] :
         Terminated(tr) =>
            /\ \E h \in Archived(tr.plan_id) : h.status = tr.to
            /\ Active(tr.plan_id) = {}
            /\ Announced(tr)]_vars

\* the same for every path but the command line
C25_DaemonPaths ==
    [][\A tr \in [plan_id : {p.plan_id : p \in plans_dir}, from : ActiveStatuses,
                  to : TerminalStatuses] :
         (Terminated(tr) /\ ret'.op # "cli_reject") =>
            /\ \E h \in Archived(tr.plan_id) : h.status = tr.to
            /\ Active(tr.plan_id) = {}
            /\ Announced(tr)]_vars

\* a plan was rejected from the command line: archived, nothing sent
C25_SilentReject ==
    /\ ret.op = "cli_reject"
    /\ ret.trans # <<>>
    /\ ret.notes = <<>>
    /\ \E h \in history_dir : h.plan_id = ret.trans[1].plan_id /\ h.rejection_reason = <<>>


\* ------------------------------------------- the validation of candidates
\* the values a reply may give as confidence: floats (in tenths), NaN, which
\* json.loads accepts, true, and a text
Float(tenths) == [type |-> "float", nan |-> FALSE, value |-> tenths]

NaN == [type |-> "float", nan |-> TRUE, value |-> 0]

JsonTrue == [type |-> "bool", nan |-> FALSE, value |-> 10]

JsonText == [type |-> "str", nan |-> FALSE, value |-> 5]

\* isinstance(confidence, (int, float)); bool is a subclass of int
IsIntOrFloat(c) == c.type \in {"int", "float", "bool"}

\* confidence < bound; every comparison with NaN is false
Less(c, bound) == ~c.nan /\ c.value < bound

\* confidence > bound
Greater(c, bound) == ~c.nan /\ c.value > bound

\* the steps a reply may list: objects, and texts
StepObject == [json |-> "object", step |-> 1, action |-> <<"Restart", " ", "container">>,
               command |-> CmdTrue]

StepNoAction == [json |-> "object", step |-> 1, command |-> CmdTrue]

StepNoNumber == [json |-> "object", action |-> <<"Restart", " ", "container">>,
                 command |-> CmdTrue]

StepText == [json |-> "string", text |-> <<"step", " ", "1", ":", " ", "action", " ", "restart">>]

StepPlain == [json |-> "string", text |-> <<"restart", " ", "container">>]

\* `key in step`: a key of an object, a part of a text
In(key, step) ==
    IF step.json = "object" THEN key \in DOMAIN step ELSE Contains(<<key>>, step.text)

required_fields == {"plan_schema_version", "summary", "severity", "confidence", "plan"}

\* ClaudeAnalyzer._validate_plan
ValidatePlan(plan) ==
    /\ required_fields \subseteq DOMAIN plan
    /\ plan.severity \in {"info", "warning", "critical"}
    /\ ~(~IsIntOrFloat(plan.confidence) \/ Less(plan.confidence, 0)
           \/ Greater(plan.confidence, 10))
    /\ \A i \in DOMAIN plan.plan : ~(~In("step", plan.plan[i]) \/ ~In("action", plan.plan[i]))

\* ClaudeAnalyzer.analyze from the extracted JSON object on
Analyze(plan) == IF ~ValidatePlan(plan) THEN <<>> ELSE <<plan>>

\* a reply like the plans of the playbooks
BaseReply ==
    [plan_schema_version |-> <<"1.0">>, summary |-> <<"Container", " ", "is", " ", "unhealthy">>,
     severity |-> "warning", confidence |-> Float(6), plan |-> <<StepObject>>,
     evidence |-> EvOther, prechecks |-> <<>>, postchecks |-> <<>>, rollback |-> <<>>,
     notification_timestamp |-> <<>>]

Without(reply, field) == [k \in DOMAIN reply \ {field} |-> reply[k]]

\* the JSON objects extracted from a reply: the base reply, and the base
\* reply with one field missing or changed
Replies ==
    {BaseReply}
        \cup {Without(BaseReply, field) : field \in required_fields}
        \cup {[BaseReply EXCEPT !.severity = s] : s \in {"info", "critical", "high", "Warning"}}
        \cup {[BaseReply EXCEPT !.confidence = c] :
                c \in {Float(0), Float(10), Float(11), Float(-1), NaN, JsonTrue, JsonText}}
        \cup {[BaseReply EXCEPT !.plan = p] :
                p \in {<<>>, <<StepObject, StepNoAction>>, <<StepNoNumber>>, <<StepText>>,
                       <<StepPlain>>}}

\* what analyzer.analyze may return when the analyzer is the ClaudeAnalyzer:
\* None when the command fails or no JSON object is found, else the answer
\* of analyze to the object
ClaudeAnswers(issues) ==
    {<<>>} \cup (IF MayPlan /\ issues # <<>> THEN {Analyze(reply) : reply \in Replies} ELSE {})

RunOnceClaude == RunOnceWith(IssueLists, [l \in IssueLists |-> ClaudeAnswers(l)])

AnalyzeNext == RunOnceClaude \/ SignalReject \/ Return \/ Wait

SpecAnalyze == AgentInit /\ [][AnalyzeNext]_vars

\* what the validation is said to establish
Validated(plan) ==
    /\ required_fields \subseteq DOMAIN plan
    /\ plan.severity \in {"info", "warning", "critical"}
    /\ plan.confidence.type \in {"int", "float"}
    /\ ~plan.confidence.nan
    /\ 0 <= plan.confidence.value
    /\ plan.confidence.value <= 10
    /\ \A i \in DOMAIN plan.plan :
         /\ plan.plan[i].json = "object"
         /\ {"step", "action"} \subseteq DOMAIN plan.plan[i]

\* C26: every plan stored in the active set passed validation: it has
\* plan_schema_version, summary, severity, confidence and plan, its severity
\* is info, warning or critical, its confidence is a number in [0,1], and
\* every step has a step number and an action.
C26_PersistedValid == \A p \in plans_dir : Validated(p)

\* what the checks of the validation do establish for the stored plans
C26_Checked ==
    \A p \in plans_dir :
        /\ required_fields \subseteq DOMAIN p
        /\ p.severity \in {"info", "warning", "critical"}
        /\ p.confidence.type # "str"
        /\ p.confidence.nan \/ (0 <= p.confidence.value /\ p.confidence.value <= 10)
        /\ \A i \in DOMAIN p.plan :
             p.plan[i].json = "object" => {"step", "action"} \subseteq DOMAIN p.plan[i]

\* a stored plan whose confidence is NaN
C26_NaNStored == \E p \in plans_dir : p.confidence.nan

\* a stored plan with a step that is a text
C26_TextStepStored == \E p \in plans_dir : \E i \in DOMAIN p.plan : p.plan[i].json = "string"


\* ------------------------------------------------- the command channel
\* SignalReceiver.recipient: the number the agent talks to (configuration)
recipient == "owner"

\* an envelope of the Signal API: source is <<>> when the key is missing;
\* syncMessage is <<>> or <<its sentMessage>>, dataMessage <<>> or <<its
\* message>>
Envelope(source, dataMessage, syncMessage) ==
    [source |-> source, dataMessage |-> dataMessage, syncMessage |-> syncMessage]

\* a sentMessage: reaction is <<>> or <<the reaction>>, message a text
SentMessage(reaction, message) == [reaction |-> reaction, message |-> message]

Reaction(emoji, targetSentTimestamp, isRemove) ==
    [emoji |-> emoji, targetSentTimestamp |-> targetSentTimestamp, isRemove |-> isRemove]

\* a command dict; the keys a command does not have are None
Command(action, plan_id, emoji, target_timestamp, mode, sender) ==
    [action |-> action, plan_id |-> plan_id, emoji |-> emoji,
     target_timestamp |-> target_timestamp, mode |-> mode, sender |-> sender]

Plain(action, sender) == Command(action, None, "", 0, "", sender)

\* SignalReceiver.get_mode
GetMode(modes, sender) == IF sender \in DOMAIN modes THEN modes[sender] ELSE "SRE"

\* SignalReceiver.set_mode
SetMode(modes, sender, mode) == (sender :> mode) @@ modes

\* SignalReceiver._parse_sre_command; text is in lower case
ParseSreCommand(text, sender) ==
    IF Len(text) >= 3 /\ text[1] \in {"approve", "yes", "ok", "execute", "run"} /\ text[2] = " "
    THEN Command("approve", SubSeq(text, 3, Len(text)), "", 0, "", sender)
    ELSE IF Len(text) = 1 /\ text[1] \in {"approve", "yes", "ok", "execute", "run"}
    THEN Plain("approve", sender)
    ELSE IF Len(text) >= 3 /\ text[1] \in {"reject", "no", "deny", "cancel", "skip"}
            /\ text[2] = " "
    THEN Command("reject", SubSeq(text, 3, Len(text)), "", 0, "", sender)
    ELSE IF Len(text) = 1 /\ text[1] \in {"reject", "no", "deny", "cancel", "skip"}
    THEN Plain("reject", sender)
    ELSE IF Len(text) = 1 /\ text[1] \in {"status", "pending", "list", "plans", "?"}
    THEN Plain("status", sender)
    ELSE IF Len(text) = 1 /\ text[1] \in {"help", "commands"}
    THEN Plain("help", sender)
    ELSE Plain("chat", sender)

\* SignalReceiver._parse_operator_command; the words of a text are its odd
\* atoms
ParseOperatorCommand(text, sender) ==
    LET cmd == LowerAtom(text[1])
        subcmd(default) == IF Len(text) >= 3 THEN LowerAtom(text[3]) ELSE default
    IN  IF cmd \in {"exit", "quit", "done", "back"}
        THEN Command("mode_switch", None, "", 0, "SRE", sender)
        ELSE IF cmd = "memory"
        THEN IF subcmd("show") = "show" THEN Plain("operator_memory_show", sender)
             ELSE IF subcmd("show") = "add" /\ Len(text) >= 5
             THEN Plain("operator_memory_add", sender)
             ELSE IF subcmd("show") = "clear" THEN Plain("operator_memory_clear", sender)
             ELSE Plain("operator_help", sender)
        ELSE IF cmd = "rules"
        THEN IF subcmd("list") = "list" THEN Plain("operator_rules_list", sender)
             ELSE IF subcmd("list") = "show" /\ Len(text) >= 5
             THEN Plain("operator_rules_show", sender)
             ELSE IF subcmd("list") = "add" /\ Len(text) >= 7
             THEN Plain("operator_rules_add", sender)
             ELSE Plain("operator_help", sender)
        ELSE IF cmd = "context" THEN Plain("operator_context", sender)
        ELSE IF cmd = "reload" THEN Plain("operator_reload", sender)
        ELSE IF cmd \in {"help", "?"} THEN Plain("operator_help", sender)
        ELSE Plain("operator_chat", sender)

\* SignalReceiver._parse_command
ParseCommand(text, sender, modes) ==
    IF Lower(text) = <<"/sre">> THEN Command("mode_switch", None, "", 0, "SRE", sender)
    ELSE IF Lower(text) = <<"/operator">>
    THEN Command("mode_switch", None, "", 0, "OPERATOR", sender)
    ELSE IF GetMode(modes, sender) = "OPERATOR" THEN ParseOperatorCommand(text, sender)
    ELSE ParseSreCommand(Lower(text), sender)

\* envelope.get('source', default)
SourceOr(msg, default) == IF msg.source = <<>> THEN default ELSE msg.source[1]

\* _parse_message, the text of the message and who sent it
TextOf(msg) ==
    IF msg.dataMessage # <<>> /\ msg.dataMessage[1] # <<>>
    THEN [text |-> msg.dataMessage[1], sender |-> SourceOr(msg, "")]
    ELSE IF msg.syncMessage # <<>>
    THEN [text |-> msg.syncMessage[1].message, sender |-> SourceOr(msg, recipient)]
    ELSE [text |-> <<>>, sender |-> SourceOr(msg, "")]

\* _parse_message with every sender's text accepted
ParseTextAnySender(msg, modes) ==
    IF TextOf(msg).text = <<>> THEN <<>>
    ELSE <<ParseCommand(TextOf(msg).text, TextOf(msg).sender, modes)>>

\* _parse_message from the text on
ParseText(msg, modes) ==
    IF TextOf(msg).sender # recipient THEN <<>>
    ELSE IF TextOf(msg).text = <<>> THEN <<>>
    ELSE <<ParseCommand(TextOf(msg).text, TextOf(msg).sender, modes)>>

\* SignalReceiver._parse_message: <<>> for None, else <<the command>>
ParseMessage(msg, modes) ==
    IF msg.syncMessage # <<>> /\ msg.syncMessage[1].reaction # <<>>
          /\ ~msg.syncMessage[1].reaction[1].isRemove
    THEN IF SourceOr(msg, "") # recipient THEN <<>>
         ELSE <<Command("reaction", None, msg.syncMessage[1].reaction[1].emoji,
                        msg.syncMessage[1].reaction[1].targetSentTimestamp, "",
                        SourceOr(msg, ""))>>
    ELSE ParseText(msg, modes)

\* SREAgent._handle_signal_reaction; plan is <<>> or <<the first listed
\* plan that was notified at the target timestamp>>
HandleSignalReaction(w, emoji, plan, current_issues, answer, t, dry) ==
    IF plan = <<>> THEN w
    ELSE CASE emoji = "approve" -> HandleSignalApprove(w, plan[1].plan_id, t, current_issues, dry)
           [] emoji = "reject" -> HandleSignalReject(w, plan[1].plan_id, t)
           [] emoji = "investigate" ->
                HandleSignalInvestigate(w, plan[1], current_issues, answer, t)
           [] OTHER -> w

\* SREAgent.process_signal_commands, one command
ProcessCommand(w, cmd, plan, current_issues, answer, t, dry) ==
    CASE cmd.action = "mode_switch" -> Note(w, "mode_switch", None)
      [] cmd.action = "approve" -> HandleSignalApprove(w, cmd.plan_id, t, current_issues, dry)
      [] cmd.action = "reject" -> HandleSignalReject(w, cmd.plan_id, t)
      [] cmd.action = "reaction" ->
            HandleSignalReaction(w, cmd.emoji, plan, current_issues, answer, t, dry)
      [] OTHER -> Note(w, cmd.action, None)

\* the plans a reaction may be matched with
Matching(cmd) ==
    IF cmd.action # "reaction" \/ cmd.target_timestamp = 0 THEN {<<>>}
    ELSE IF \E p \in plans_dir : p.notification_timestamp = <<cmd.target_timestamp>>
    THEN {<<p>> : p \in {q \in plans_dir : q.notification_timestamp = <<cmd.target_timestamp>>}}
    ELSE {<<>>}

\* the texts a person may send
Texts ==
    {<<"approve">>, <<"reject">>, <<"status">>, <<"hello">>, <<"/operator">>, <<"exit">>}
        \cup {<<"approve", " ">> \o p.plan_id : p \in plans_dir}

\* the envelopes the API may deliver
Messages ==
    {Envelope(source, <<text>>, <<>>) : source \in {<<"owner">>, <<"stranger">>}, text \in Texts}
        \cup {Envelope(source, <<>>, <<SentMessage(<<>>, text)>>) :
                source \in {<<>>, <<"owner">>, <<"stranger">>}, text \in {<<"reject">>, <<>>}}
        \cup {Envelope(source, <<>>, <<SentMessage(<<Reaction(emoji, 1, FALSE)>>, <<>>)>>) :
                source \in {<<>>, <<"owner">>, <<"stranger">>}, emoji \in Emojis}
        \cup {Envelope(<<"owner">>, <<>>,
                       <<SentMessage(<<Reaction("reject", 1, TRUE)>>, <<>>)>>)}

\* what handling a message leaves behind; cmd is what _parse_message gave
CommitSignal(msg, cmd, issues, w) ==
    /\ plans_dir' = w.plans
    /\ history_dir' = w.history
    /\ execution_history' = w.hist
    /\ seen_alerts' = w.seen
    /\ created' = w.made
    /\ executor_calls' = Tally(executor_calls, w.executed)
    /\ shell_calls' = shell_calls
    /\ user_mode' = IF cmd # <<>> /\ cmd[1].action = "mode_switch"
                    THEN SetMode(user_mode, cmd[1].sender, cmd[1].mode)
                    ELSE user_mode
    /\ ret' = [op |-> "signal", arg |-> None, issues |-> IF Collected(w) THEN issues ELSE <<>>,
               at |-> now, raised |-> w.raised, ran |-> w.ran, notes |-> w.notes,
               trans |-> w.trans, executed |-> w.executed, asked |-> w.asked,
               msg |-> msg, cmd |-> cmd]

\* process_signal_commands: a message arrives while the daemon polls
ProcessSignalCommands ==
    /\ ret.op = "none"
    /\ pc = "poll"
    /\ \E msg \in Messages :
        IF ParseMessage(msg, user_mode) = <<>>
        THEN CommitSignal(msg, <<>>, <<>>, World)
        ELSE \E plan \in Matching(ParseMessage(msg, user_mode)[1]) :
             \E current_issues \in IssueLists : \E answer \in Answers(current_issues) :
                CommitSignal(msg, ParseMessage(msg, user_mode), current_issues,
                             ProcessCommand(World, ParseMessage(msg, user_mode)[1], plan,
                                            current_issues, answer, now, dry_run))
    /\ UNCHANGED <<now, suppress_hours, dry_run, last_check, pc>>

SignalNext == RunOnce \/ ProcessSignalCommands \/ Return \/ Wait

SpecSignal == AgentInit /\ [][SignalNext]_vars

\* the message was handled and its envelope names a sender other than the
\* recipient
FromStranger ==
    /\ ret.op = "none"
    /\ ret'.op = "signal"
    /\ ret'.msg.source # <<>>
    /\ ret'.msg.source[1] # recipient

\* C27: no command, text or reaction, whose sender differs from the
\* authorized recipient is returned by the command channel; such a message
\* causes no plan transition, no execution and no mode change.
C27_StrangersIgnored ==
    [][FromStranger =>
         /\ ret'.cmd = <<>>
         /\ ret'.trans = <<>>
         /\ ret'.executed = <<>>
         /\ ret'.ran = <<>>
         /\ ret'.notes = <<>>
         /\ UNCHANGED <<plans_dir, history_dir, execution_history, user_mode>>]_vars

\* a stranger's approve arrived while a plan was pending, and the plan is
\* still pending
C27_Witness ==
    /\ ret.op = "signal"
    /\ ret.msg.source = <<"stranger">>
    /\ ret.msg.dataMessage = <<<<"approve">>>>
    /\ ret.cmd = <<>>
    /\ \E p \in plans_dir : p.status = "pending"


\* --------------------------------------------------- a failing first step
\* execute() was called on the plan and was not refused
ExecutedFailingStepPlan ==
    /\ Called
    /\ ret.plan = FailingStepPlan
    /\ ~ret.raised
    /\ RanIn("precheck") # <<>>

\* C28: for the plan with prechecks ["true"], the one step {command: "false"}
\* and postchecks ["true"], execute() returns success false, its error
\* refers to step 1, the position of the failing step, and no postcheck is
\* executed.
C28_FailingStep ==
    ExecutedFailingStepPlan =>
        /\ ~ret.result.success
        /\ SubSeq(ret.result.error, 1, 3) = <<"Step ", "1", " failed: ">>
        /\ RanIn("postcheck") = <<>>

\* what does hold for that plan: the failure, and no postcheck
C28_FailsWithoutPostchecks ==
    ExecutedFailingStepPlan =>
        /\ ~ret.result.success
        /\ SubSeq(ret.result.error, 1, 3) = <<"Step ", "0", " failed: ">>
        /\ RanIn("postcheck") = <<>>

\* the same plan with its step numbered is reported as step 1
C28_NumberedStep ==
    (Called /\ ~ret.raised /\ RanIn("precheck") # <<>>
       /\ ret.plan = [FailingStepPlan EXCEPT !.plan = Steps(<<CmdFalse>>)])
    => /\ ~ret.result.success
       /\ SubSeq(ret.result.error, 1, 3) = <<"Step ", "1", " failed: ">>
       /\ RanIn("postcheck") = <<>>


\* ------------------------------------------------------ a killed process
\* reject_plan killed after the archive file is written and before the
\* active file is unlinked
RejectPlanKilled(w, plan_id, reason, t) ==
    [RejectPlan(w, plan_id, reason, t).w EXCEPT !.plans = w.plans, !.trans = w.trans]

\* execute_plan killed after the archive file is written and before the
\* active file is unlinked: nothing is unlinked and nothing notified
ExecutePlanKilled(w, plan, t, dry) ==
    [ExecutePlan(w, plan, t, dry) EXCEPT !.plans = w.plans, !.notes = w.notes,
                                         !.trans = w.trans]

\* main: `reject <plan_id>` from the command line, killed inside reject_plan
KilledInRejectPlan ==
    /\ ret.op = "none"
    /\ \E p \in plans_dir :
        history_dir' = RejectPlanKilled(World, p.plan_id, <<>>, now).history
    /\ UNCHANGED <<now, execution_history, seen_alerts, suppress_hours, plans_dir, dry_run,
                   last_check, created, pc, user_mode, executor_calls, shell_calls, ret>>

\* run_daemon: a cycle that is due, killed inside the execute_plan of an
\* approved plan
KilledInExecutePlan ==
    /\ ret.op = "none"
    /\ pc = "cycle"
    /\ IF last_check = <<>> THEN TRUE ELSE now - last_check[1] >= check_interval
    /\ \E plan \in CheckApprovals(World) :
        /\ ~ExecutePlanKilled(World, plan, now, dry_run).raised
        /\ history_dir' = ExecutePlanKilled(World, plan, now, dry_run).history
        /\ execution_history' = ExecutePlanKilled(World, plan, now, dry_run).hist
        /\ executor_calls' = Tally(executor_calls,
                                   ExecutePlanKilled(World, plan, now, dry_run).executed)
        /\ shell_calls' = shell_calls
    /\ pc' = "dead"
    /\ UNCHANGED <<now, seen_alerts, suppress_hours, plans_dir, dry_run, last_check, created,
                   user_mode, ret>>

\* the daemon is started again: SREAgent.__init__, which loads the state
\* file of the deduplicator; what was held in memory is gone
Restart ==
    /\ ret.op = "none"
    /\ pc = "dead"
    /\ pc' = "cycle"
    /\ execution_history' = <<>>
    /\ last_check' = <<>>
    /\ user_mode' = <<>>
    /\ executor_calls' = <<>>
    /\ shell_calls' = <<>>
    /\ UNCHANGED <<now, seen_alerts, suppress_hours, plans_dir, history_dir, dry_run, created,
                   ret>>

CrashNext ==
    \/ RunOnce
    \/ CliApprove
    \/ CliReject
    \/ KilledInRejectPlan
    \/ KilledInExecutePlan
    \/ Restart
    \/ Return
    \/ Wait

SpecCrash == AgentInit /\ [][CrashNext]_vars

\* C29: killing the process between two storage operations never loses or
\* corrupts committed state: every plan is still recorded with a status it
\* had legitimately reached, no plan is recorded in both collections, and
\* the fingerprint records are still present after restart.
C29_KillSafe ==
    /\ \A p \in plans_dir : \A h \in history_dir : p.plan_id # h.plan_id
    /\ \A p \in plans_dir : p.status \in ActiveStatuses
    /\ \A h \in history_dir : h.status \in TerminalStatuses

\* what a kill and a restart do keep: every stored plan id stays stored, and
\* a restart finds the fingerprint records as they were
C29_NothingLost ==
    [][/\ \A p \in plans_dir \cup history_dir :
            \E q \in plans_dir' \cup history_dir' : q.plan_id = p.plan_id
       /\ (pc = "dead" /\ pc' = "cycle") => seen_alerts' = seen_alerts]_vars


\* ------------------------------------------------------ the quick answers
MaxQueryLen == 3

SIMPLE_PATTERNS ==
    {<<"status">>, <<"temp">>, <<"cpu">>, <<"memory">>, <<"disk">>, <<"ip">>, <<"uptime">>,
     <<"containers">>, <<"ram">>}

BYPASS_PATTERNS ==
    {<<"memory", " ", "bank">>, <<"your", " ", "memory">>, <<"your", " ", "knowledge">>,
     <<"your", " ", "files">>, <<"what", " ", "do", " ", "you", " ", "know">>,
     <<"what", " ", "have", " ", "you", " ", "learned">>,
     <<"tell", " ", "me", " ", "about", " ", "yourself">>, <<"knowledge", " ", "base">>,
     <<"what", " ", "can", " ", "you", " ", "do">>}

MEMORY_CLARITY_KEYWORDS ==
    {<<"usage">>, <<"used">>, <<"free">>, <<"available">>, <<"percent">>, <<"gb">>, <<"mb">>,
     <<"%">>}

\* forty-six blanks
Blanks == "                                              "

\* forty-five characters that hold no pattern
Filler == "on the server right now as soon as you can ok"

Whitespace(a) == a \in {" ", Blanks}

\* str.strip
RECURSIVE Strip(_)
Strip(text) ==
    IF text = <<>> THEN text
    ELSE IF Whitespace(Head(text)) THEN Strip(Tail(text))
    ELSE IF Whitespace(text[Len(text)]) THEN Strip(SubSeq(text, 1, Len(text) - 1))
    ELSE text

\* is_simple_query without the test of the length
is_simple_query_any_length(text) ==
    IF Strip(Lower(text)) \in {<<"/operator">>, <<"/sre">>} THEN TRUE
    ELSE IF \E p \in BYPASS_PATTERNS : Contains(p, Strip(Lower(text))) THEN FALSE
    ELSE IF Contains(<<"memory">>, Strip(Lower(text)))
            /\ ~\E k \in MEMORY_CLARITY_KEYWORDS : Contains(k, Strip(Lower(text)))
    THEN FALSE
    ELSE \E p \in SIMPLE_PATTERNS : Contains(p, Strip(Lower(text)))

\* signal_chat.is_simple_query
is_simple_query(text) ==
    IF Strip(Lower(text)) \in {<<"/operator">>, <<"/sre">>} THEN TRUE
    ELSE IF \E p \in BYPASS_PATTERNS : Contains(p, Strip(Lower(text))) THEN FALSE
    ELSE IF Contains(<<"memory">>, Strip(Lower(text)))
            /\ ~\E k \in MEMORY_CLARITY_KEYWORDS : Contains(k, Strip(Lower(text)))
    THEN FALSE
    ELSE (\E p \in SIMPLE_PATTERNS : Contains(p, Strip(Lower(text)))) /\ WordLen(text) < 50

\* the queries a person may send
Queries ==
    SeqsUpTo({"memory", "MEMORY", "bank", "Bank", "your", "usage", "cpu", "/sre", "/SRE",
              " ", Blanks, Filler}, MaxQueryLen)

\* a caller asks whether a query is simple
IsSimpleQueryCall ==
    /\ ret.op = "none"
    /\ \E text \in Queries :
        ret' = [op |-> "is_simple_query", text |-> text, result |-> is_simple_query(text)]
    /\ UNCHANGED <<now, execution_history, seen_alerts, suppress_hours, agent_vars,
                   shell_calls>>

QueryNext == IsSimpleQueryCall \/ Return

SpecQuery == ExecInit /\ [][QueryNext]_vars

\* the query must be routed to Claude: it contains a bypass phrase, in any
\* letter case, or 'memory' without a clarity keyword, or has 50 characters
\* or more
MustGoToClaude(text) ==
    \/ \E p \in BYPASS_PATTERNS : Contains(p, Lower(text))
    \/ /\ Contains(<<"memory">>, Lower(text))
       /\ ~\E k \in MEMORY_CLARITY_KEYWORDS : Contains(k, Lower(text))
    \/ WordLen(text) >= 50

\* the query is a mode switch once trimmed and put in lower case
ModeSwitch(text) == Strip(Lower(text)) \in {<<"/operator">>, <<"/sre">>}

\* C30 as stated: for every query that contains a bypass phrase, or 'memory'
\* without a clarity keyword, or is 50 or more characters long,
\* is_simple_query returns False.
C30_AsStated ==
    (ret.op = "is_simple_query" /\ MustGoToClaude(ret.text)) => ~ret.result

\* C30: for every query that is not a mode switch and that contains a bypass
\* phrase, or 'memory' without a clarity keyword, or is 50 or more characters
\* long, is_simple_query returns False.
C30_NeverSimple ==
    (ret.op = "is_simple_query" /\ MustGoToClaude(ret.text) /\ ~ModeSwitch(ret.text))
        => ~ret.result

\* a query with a simple pattern was refused for its length, and one in
\* capitals for its bypass phrase
C30_Witness ==
    /\ ret.op = "is_simple_query"
    /\ ~ret.result
    /\ \/ ret.text = <<"cpu", " ", Filler>>
       \/ ret.text = <<"MEMORY", " ", "Bank">>

\* a padded mode switch of 50 characters is accepted
C30_PaddedModeSwitch ==
    /\ ret.op = "is_simple_query"
    /\ ret.text = <<"/sre", Blanks>>
    /\ WordLen(ret.text) = 50
    /\ ret.result

\* ------------------------------------------------------ get_quick_response
\* `word in atom` for the words get_quick_response looks for: the atom
\* itself, or a longer atom that holds the word as a run of characters
HasChars(word, atom) ==
    \/ atom = word
    \/ <<word, atom>> \in {<<"container", "containers">>, <<"f", "free">>}

\* `word in text_lower`
Mentions(word, text) == \E i \in 1..Len(text) : HasChars(word, text[i])

\* str.split(':'): the runs of atoms between colons
RECURSIVE SplitColonFrom(_, _, _, _)
SplitColonFrom(line, i, cur, acc) ==
    IF i > Len(line) THEN Append(acc, cur)
    ELSE IF line[i] = ":" THEN SplitColonFrom(line, i + 1, <<>>, Append(acc, cur))
    ELSE SplitColonFrom(line, i + 1, Append(cur, line[i]), acc)

SplitColon(line) == SplitColonFrom(line, 1, <<>>, <<>>)

\* str.split(':', 1)[1]: all that follows the first colon
RECURSIVE AfterFirstColon(_)
AfterFirstColon(line) ==
    IF Head(line) = ":" THEN Tail(line) ELSE AfterFirstColon(Tail(line))

\* the context of tests/test_quick_response.py
MOCK_CONTEXT ==
    << <<"CPU Temp", ":", " ", "45.0°C">>,
       <<"Memory", ":", " ", "8000MB/16000MB (50% used)">>,
       <<"Disk", ":", " ", "/", ":", " ", "44% used (100GB/233GB)">>,
       <<"Containers", ":", " ", "27 running, 0 unhealthy">>,
       <<"Public IP", ":", " ", "1.2.3.4">>,
       <<"Uptime", ":", " ", "up 5 days">> >>

\* a context as get_system_context renders it
SystemContext ==
    << <<"CPU Temp", ":", " ", "50.0°C">>,
       <<"Memory", ":", " ", "8000MB/16000MB (50% used)">>,
       <<"Disk", ":", " ", "/", ":", " ", "44% used (100GB/233GB)">>,
       <<"Containers", ":", " ", "27 running, 1 unhealthy">>,
       <<"Unhealthy", ":", " ", "web1">>,
       <<"Load", ":", " ", "0.10 (1m), 0.20 (5m), 0.30 (15m)">>,
       <<"Public IP", ":", " ", "1.2.3.4">>,
       <<"Uptime", ":", " ", "up 5 days">> >>

Contexts == {MOCK_CONTEXT, SystemContext}

\* f"CPU: {c * 9/5 + 32:.0f}°F" for temp_c with its unit taken off
Fahrenheit(temp_c) ==
    IF temp_c = <<"45.0°C">> THEN <<"CPU", ":", " ", "113°F">>
    ELSE IF temp_c = <<"50.0°C">> THEN <<"CPU", ":", " ", "122°F">>
    ELSE <<"ValueError">>

\* the lines of the context that hold a label, in order
LinesWith(label, lines) == SelectSeq(lines, LAMBDA line : Contains(<<label>>, line))

\* signal_chat.get_quick_response with the mode switches answered first and
\* the keywords tried in the order of the code; <<>> is None
get_quick_response(text, lines) ==
    LET text_lower == Strip(Lower(text))
        first(label) == Head(LinesWith(label, lines))
        has(label) == LinesWith(label, lines) # <<>>
    IN  IF text_lower = <<"/operator">> THEN << <<"Entering Operator mode.">> >>
        ELSE IF text_lower = <<"/sre">> THEN << <<"Switched to SRE mode.">> >>
        ELSE IF (Mentions("temp", text_lower) \/ Mentions("cpu", text_lower))
                /\ has("CPU Temp")
        THEN IF Mentions("f", text_lower) \/ Mentions("fahrenheit", text_lower)
             THEN << Fahrenheit(Strip(SplitColon(first("CPU Temp"))[2])) >>
             ELSE << <<"CPU", ":", " ">> \o Strip(SplitColon(first("CPU Temp"))[2]) >>
        ELSE IF Mentions("ip", text_lower) /\ has("Public IP")
        THEN << Strip(SplitColon(first("Public IP"))[2]) >>
        ELSE IF Mentions("uptime", text_lower) /\ has("Uptime")
        THEN << Strip(AfterFirstColon(first("Uptime"))) >>
        ELSE IF (Mentions("ram", text_lower)
                 \/ (Mentions("memory", text_lower)
                     /\ \E k \in MEMORY_CLARITY_KEYWORDS : Mentions(k[1], text_lower)))
                /\ has("Memory")
        THEN << Strip(AfterFirstColon(first("Memory"))) >>
        ELSE IF (Mentions("disk", text_lower) \/ Mentions("space", text_lower))
                /\ has("Disk")
        THEN << Strip(AfterFirstColon(first("Disk"))) >>
        ELSE IF Mentions("container", text_lower) /\ has("Containers")
        THEN << Strip(AfterFirstColon(first("Containers"))) >>
        ELSE <<>>

\* the queries a person may ask about the system
QuickQueries ==
    SeqsUpTo({"status", "temp", "cpu", "memory", "disk", "ip", "uptime", "containers", "ram",
              "usage", "free", "/sre", " "}, MaxQueryLen)

\* the chat handler asks for a quick answer to a query
GetQuickResponseCall ==
    /\ ret.op = "none"
    /\ \E text \in QuickQueries, context \in Contexts :
        ret' = [op |-> "get_quick_response", text |-> text, context |-> context,
                simple |-> is_simple_query(text),
                result |-> get_quick_response(text, context)]
    /\ UNCHANGED <<now, execution_history, seen_alerts, suppress_hours, agent_vars,
                   shell_calls>>

QuickNext == GetQuickResponseCall \/ Return

SpecQuick == ExecInit /\ [][QuickNext]_vars

\* what the context says after the colon of the line with a label
Said(label, lines) == Strip(AfterFirstColon(Head(LinesWith(label, lines))))

\* the standard lines a pattern of SIMPLE_PATTERNS is answered from
LineOf(pattern) ==
    CASE pattern \in {"temp", "cpu"} -> "CPU Temp"
      [] pattern \in {"memory", "ram"} -> "Memory"
      [] pattern = "disk" -> "Disk"
      [] pattern = "containers" -> "Containers"
      [] pattern = "ip" -> "Public IP"
      [] pattern = "uptime" -> "Uptime"
      [] OTHER -> "none"

\* the response is taken from the line of one of the query's keywords: it
\* is what that line says, whole or in part, or the temperature converted
TakenFromLineOfKeyword(text, lines, response) ==
    \E p \in SIMPLE_PATTERNS :
        /\ Contains(p, Strip(Lower(text)))
        /\ LineOf(p[1]) # "none"
        /\ \/ Contains(response, Said(LineOf(p[1]), lines))
           \/ response = <<"CPU", ":", " ">> \o Said("CPU Temp", lines)
           \/ LineOf(p[1]) = "CPU Temp" /\ response = Fahrenheit(Said("CPU Temp", lines))

\* C31: whenever is_simple_query(q) is True and the context contains all the
\* standard lines, get_quick_response(q, context) returns a response, not
\* None, taken from the line that matches the query's keyword.
C31_QuickAnswer ==
    (ret.op = "get_quick_response" /\ ret.simple)
        => /\ ret.result # <<>>
           /\ TakenFromLineOfKeyword(ret.text, ret.context, ret.result[1])

\* the part that holds: a simple query that names a keyword other than
\* 'status' is answered from the line of one of its keywords
C31_KeywordAnswered ==
    (/\ ret.op = "get_quick_response"
     /\ ret.simple
     /\ ~ModeSwitch(ret.text)
     /\ \E p \in SIMPLE_PATTERNS \ {<<"status">>} : Contains(p, Lower(ret.text)))
        => /\ ret.result # <<>>
           /\ TakenFromLineOfKeyword(ret.text, ret.context, ret.result[1])

\* 'status' is accepted by is_simple_query and gets no quick answer
C31_StatusUnanswered ==
    /\ ret.op = "get_quick_response"
    /\ ret.text = <<"status">>
    /\ ret.simple
    /\ ret.result = <<>>

\* 'memory usage' is answered from the Memory line
C31_MemoryAnswered ==
    /\ ret.op = "get_quick_response"
    /\ ret.text = <<"memory", " ", "usage">>
    /\ ret.simple
    /\ ret.result = << <<"8000MB/16000MB (50% used)">> >>

\* ------------------------------------------------ steps without a command
HasNullStep(plan) == \E i \in 1..Len(plan.plan) : plan.plan[i].command = None

\* the entries of the result for the steps whose command is null
NullStepResults == SelectSeq(ret.result.steps, LAMBDA s : s.type = "step" /\ s.command = None)

\* C32: execute() always returns a result and never raises, for every plan
\* that passed validation, a plan with a step whose command is null included:
\* such a step is recorded as successful and nothing is passed to the shell
\* for it.
C32_AlwaysReturns ==
    Called => /\ ~ret.raised
              /\ \A i \in 1..Len(NullStepResults) : NullStepResults[i].success
              /\ \A i \in 1..Len(ret.ran) : ret.ran[i].command # None

\* the part that holds: a plan all of whose steps carry a command text gets
\* a result
C32_ReturnsWithoutNullStep ==
    (Called /\ ~HasNullStep(ret.plan)) => ~ret.raised

\* a plan whose only step has a null command made execute() raise before
\* any command ran
C32_NullStepRaises ==
    /\ Called
    /\ ret.plan.plan = Steps(<<None>>)
    /\ ret.raised
    /\ ret.ran = <<>>

\* ------------------------------------------------- the daemon left to run
\* main: `approve <plan_id>` from the command line, for a plan that is
\* pending, while the daemon has a later cycle ahead of it
CliApprovePending ==
    /\ ret.op = "none"
    /\ now < Horizon
    /\ \E p \in plans_dir :
        /\ p.status = "pending"
        /\ Commit("cli_approve", p.plan_id, <<>>, ApprovePlan(World, p.plan_id, now).w)
    /\ UNCHANGED <<now, suppress_hours, dry_run, user_mode, last_check, pc>>

\* process_signal_commands: an approve command that names a pending plan,
\* while the daemon has a later cycle ahead of it
SignalApprovePending ==
    /\ ret.op = "none"
    /\ pc = "poll"
    /\ now < Horizon
    /\ \E p \in plans_dir : \E current_issues \in IssueLists :
        /\ p.status = "pending"
        /\ CommitCommand("approve", p.plan_id, current_issues,
                         HandleSignalApprove(World, p.plan_id, now, current_issues, dry_run))
    /\ UNCHANGED <<now, suppress_hours, dry_run, user_mode, last_check, pc>>

LiveNext == RunOnce \/ SignalApprovePending \/ CliApprovePending \/ Return \/ Wait

\* run_daemon loops for ever: a handler that was entered returns, the poll
\* that follows a cycle ends and time passes (until the last moment of the
\* run), and a cycle that is due is run
SpecLive ==
    /\ AgentInit
    /\ [][LiveNext]_vars
    /\ WF_vars(Return)
    /\ WF_vars(Wait)
    /\ WF_vars(RunOnce)

\* the plan ids of the moments of a run
PlanIds == {PlanId(t) : t \in 0..Horizon}

ApprovedActive(plan_id) == \E p \in plans_dir : p.plan_id = plan_id /\ p.status = "approved"

ArchivedDone(plan_id) ==
    \E p \in history_dir : p.plan_id = plan_id /\ p.status \in {"completed", "failed"}

C33_CyclesRecover ==
    (ret.op = "run_once" /\ ret.raised) ~> (ret.op = "run_once" /\ ~ret.raised)

\* the part that holds: a cycle that does not abort leaves no plan approved
\* in the active collection, and a cycle aborts only on an approved plan
\* with a null command
C33_CycleClearsApproved ==
    ret.op = "run_once"
        => IF ret.raised
           THEN /\ \E p \in plans_dir : p.status = "approved" /\ HasNullStep(p)
                /\ ret.asked = <<>>
           ELSE \A p \in plans_dir : p.status # "approved"

\* a plan approved at moment 0 is still approved two cycles later, and the
\* cycle of moment 2 aborted on it before deduplication and planning
C33_AbortedAgain ==
    /\ ret.op = "run_once"
    /\ ret.raised
    /\ ret.at = 2
    /\ ret.asked = <<>>
    /\ \E p \in plans_dir : p.status = "approved" /\ p.approved_at = <<0>>

\* a plan approved from the command line was executed by the next cycle
C33_ExecutedByCycle ==
    /\ ret.op = "run_once"
    /\ ~ret.raised
    /\ \E p \in history_dir :
          /\ ret.executed = <<p.plan_id>>
          /\ p.status = "completed"
          /\ p.approved_at # <<>>
          /\ p.approved_at[1] < ret.at

\* once a plan with a null command is approved, and the agent does not run
\* dry, it stays approved in the active collection whatever the daemon does
C33_NullStepStaysApproved ==
    [][\A p \in plans_dir :
          (p.status = "approved" /\ HasNullStep(p) /\ ~dry_run) => p \in plans_dir']_vars

\* ------------------------------------------- staleness before execution
\* the plan with this id as stored in the active collection before the step
ActiveBefore(plan_id) == Load(plans_dir, plan_id)

\* staleness revalidation ran for the plan during the step and found the
\* issue still present
Revalidated(plan_id) ==
    /\ Notified("checking", plan_id)
    /\ ValidateIssuePersists(ActiveBefore(plan_id), ret'.issues)

\* the plans a step of this kind handed to the Executor that were more than
\* five minutes old were all revalidated
StaleOnlyRevalidated(ops) ==
    (ret.op = "none" /\ ret'.op \in ops)
        => \A i \in DOMAIN ret'.executed :
              OlderThanFiveMinutes(ActiveBefore(ret'.executed[i]))
                  => Revalidated(ret'.executed[i])

\* C34: no plan whose created_at is more than 5 minutes old is executed
\* unless staleness revalidation ran for it beforehand and found the issue
\* still present, on the approve path of the command channel and on the
\* path of the evidence cycle that executes the plans already approved.
C34_StaleRevalidated ==
    [][StaleOnlyRevalidated({"approve", "reaction", "run_once"})]_vars

\* the part that holds: the command channel revalidates a stale plan before
\* it executes it
C34_CommandPathRevalidates ==
    [][StaleOnlyRevalidated({"approve", "reaction"})]_vars

\* a cycle executed a plan approved from the command line that was more
\* than five minutes old, and collected no fresh evidence for it
C34_StaleExecutedByCycle ==
    /\ ret.op = "run_once"
    /\ \E p \in history_dir :
          /\ ret.executed = <<p.plan_id>>
          /\ ret.at - p.created_at.t > StaleAge
          /\ \A i \in DOMAIN ret.notes : ret.notes[i].kind # "checking"

\* an approve command executed a stale plan after revalidation
C34_StaleExecutedAfterCheck ==
    /\ ret.op = "approve"
    /\ \E p \in history_dir :
          /\ ret.executed = <<p.plan_id>>
          /\ ret.at - p.created_at.t > StaleAge
          /\ ret.notes[1] = [kind |-> "checking", plan_id |-> p.plan_id]

\* -------------------------------------------------- one execution a plan
\* C35: over the whole lifetime of one orchestrator, the Executor is invoked
\* at most once for any given plan_id.
C35_ExecutedOnce ==
    \A plan_id \in DOMAIN executor_calls : executor_calls[plan_id] <= 1

\* the part that holds: a plan all of whose steps carry a command text was
\* handed to the Executor once, and is archived as completed or failed
C35_OnceWhenReturned ==
    \A plan_id \in DOMAIN executor_calls : \A p \in plans_dir \cup history_dir :
        (p.plan_id = plan_id /\ ~HasNullStep(p))
            => /\ executor_calls[plan_id] = 1
               /\ p \in history_dir
               /\ p.status \in {"completed", "failed"}

\* a cycle called the Executor a second time for a plan that an approve
\* command had already handed to it
C35_InvokedTwice ==
    /\ ret.op = "run_once"
    /\ ret.executed # <<>>
    /\ executor_calls[ret.executed[1]] = 2

\* ------------------------------------------- the shell and the rate limit
\* plans of at most one step, with and without a precheck that fails
RatePlans ==
    {p \in ExecPlans : Len(p.plan) <= 1 /\ p.postchecks = <<>> /\ p.rollback = <<>>}

\* a caller invokes executor.execute(plan), watched
WatchedCall == ExecuteCall(RatePlans, TRUE)

RateNext == WatchedCall \/ Return \/ Tick

SpecRate == ExecInit /\ [][RateNext]_vars

\* the calls of execute() inside the trailing hour that ran a shell command
ShellCallsInTrailingHour == Len(CleanHistory(shell_calls, now))

\* C36: within one process, in any trailing one-hour window at most
\* max_fixes_per_hour invocations of execute() run any shell command at all,
\* precheck, step or postcheck.
C36_ShellCallsLimited == ShellCallsInTrailingHour <= max_fixes_per_hour

\* the part that holds: a call that ran a command and was not stopped by a
\* precheck is counted in the journal, and the journal never holds more
\* than max_fixes_per_hour entries inside the trailing hour
C36_CountedUnlessPrecheckFailed ==
    /\ InTrailingHour(execution_history, now) <= max_fixes_per_hour
    /\ (Called /\ ret.ran # <<>>)
          => \/ StartsWith(ret.result.error, <<"Precheck failed: ">>)
             \/ /\ execution_history # <<>>
                /\ execution_history[Len(execution_history)] = ret.at

\* four calls at one moment each ran a precheck, and none is in the journal
C36_UncountedCalls ==
    /\ Called
    /\ shell_calls = <<ret.at, ret.at, ret.at, ret.at>>
    /\ execution_history = <<>>
    /\ RanIn("precheck") # <<>>

\* --------------------------------------------- what reaches the shell
\* plans with a command the safety gate refuses, as a precheck, as a step or
\* as a postcheck
ShellPlans ==
    {[prechecks |-> pre, plan |-> Steps(cmds), postchecks |-> post, rollback |-> <<>>] :
        pre \in {<<>>, <<CmdTrue>>, <<CmdRmRf>>, <<CmdRestartDb>>},
        cmds \in {<<CmdTrue>>, <<CmdRmRf>>, <<CmdTrue, CmdRestartDb>>},
        post \in {<<>>, <<CmdRmRf>>, <<CmdRestartDb>>}}

\* a caller invokes executor.execute(plan) with one of these plans
ShellCall == ExecuteCall(ShellPlans, FALSE)

ShellNext == ShellCall \/ Return \/ Tick

SpecShell == ExecInit /\ [][ShellNext]_vars

Unsafe(command) == DenyListed(command) \/ NamesProtected(command)

\* C37: execute() never passes to the shell a command that contains a
\* deny-listed pattern or that names a protected resource together with
\* 'restart' or 'stop', whether the command is a step, a precheck or a
\* postcheck of the plan.
C37_NoUnsafeCommandRun ==
    Called => \A i \in DOMAIN ret.ran : ~Unsafe(ret.ran[i].command)

\* the part that holds: no unsafe command is run as a step, and a plan with
\* an unsafe step runs nothing at all
C37_NoUnsafeStepRun ==
    Called => /\ \A i \in DOMAIN ret.ran :
                    ret.ran[i].phase = "step" => ~Unsafe(ret.ran[i].command)
              /\ HasUnsafeStep(ret.plan) => ret.ran = <<>>

\* a deny-listed command was run as a precheck and a protected container
\* was restarted by a postcheck
C37_UnsafeChecksRan ==
    /\ Called
    /\ ret.plan.prechecks = <<CmdRmRf>>
    /\ ret.plan.postchecks = <<CmdRestartDb>>
    /\ Len(ret.ran) = 3
    /\ ret.ran[1].command = CmdRmRf
    /\ ret.ran[3].command = CmdRestartDb

\* ------------------------------------------ admitted, then left suppressed
\* a pending plan was created in this cycle and announced
PlannedAndNotified == \E p \in CreatedNow : p.status = "pending" /\ Notified("plan", p.plan_id)

\* an active plan covers the issue after the cycle: it was made for an issue
\* of that signature, or its evidence names the type of the issue
CoveredAfter(issue) ==
    \E p \in plans_dir' :
        \/ fingerprint(issue) \in Covers(p)
        \/ Present(issue.type) /\ HasPendingPlanForIssue({p}, issue.type)

\* C38: whenever should_alert admits an issue in an evidence cycle, by the
\* end of that cycle either a pending plan has been created and notified or
\* an active plan covers that issue.
C38_AdmittedIssueHandled ==
    [][(Handled("run_once") /\ ~ret'.raised) =>
         \A i \in Range(ret'.issues) :
            Passes(i) => (PlannedAndNotified \/ CoveredAfter(i))]_vars

\* the part that holds: when the analysis engine is asked and answers with a
\* plan that has a step, the plan is stored as pending and announced
C38_AnsweredIsPlanned ==
    [][(Handled("run_once") /\ ret'.asked # <<>> /\ ret'.asked[1] # <<>>
            /\ ret'.asked[1][1].plan # <<>>) => PlannedAndNotified]_vars

\* the analysis engine gave no plan: the issue is suppressed for
\* suppress_hours, no plan exists and nothing was sent
C38_SuppressedWithoutPlan ==
    /\ ret.op = "run_once"
    /\ ret.issues = <<IssueWeb>>
    /\ ret.asked = <<<<>>>>
    /\ ret.notes = <<>>
    /\ plans_dir = {}
    /\ history_dir = {}
    /\ seen_alerts[fingerprint(IssueWeb)].suppressed_until = IsoFormat(ret.at + SuppressWindow(suppress_hours))

\* a later cycle finds the issue again and drops it as a repeat: the
\* analysis engine is not asked, no plan exists and nothing is sent
C38_StillSuppressed ==
    /\ ret.op = "run_once"
    /\ ret.issues = <<IssueWeb>>
    /\ ret.asked = <<>>
    /\ ret.notes = <<>>
    /\ plans_dir = {}
    /\ history_dir = {}
    /\ seen_alerts[fingerprint(IssueWeb)].count = 2

\* ------------------------------------------ approved_at in the archive
\* an archived record of an executed plan
Executed(p) == p.status \in {"completed", "failed"}

\* C39: every plan archived with status completed or failed carries the
\* approved_at timestamp written when it was approved.
C39_ArchivedCarriesApprovedAt ==
    \A p \in history_dir : Executed(p) => p.approved_at # <<>>

\* the part that holds: a plan the evidence cycle executes is archived with
\* the approved_at that approve_plan wrote, which is not later than the
\* cycle
C39_CycleKeepsApprovedAt ==
    [][Handled("run_once") =>
         \A p \in history_dir' \ history_dir :
            Executed(p) => (p.approved_at # <<>> /\ p.approved_at[1] <= now)]_vars

\* an approve command executed a plan and archived it without approved_at
C39_CommandDropsApprovedAt ==
    /\ ret.op = "approve"
    /\ \E p \in history_dir :
          /\ Executed(p)
          /\ p.approved_at = <<>>
          /\ p.executed_at = <<ret.at>>
          /\ \E i \in 1..Len(ret.notes) :
                ret.notes[i] = [kind |-> "approved", plan_id |-> p.plan_id]

\* an evidence cycle executed an approved plan and archived it with the
\* approved_at of its approval
C39_CycleArchivedApproved ==
    /\ ret.op = "run_once"
    /\ \E p \in history_dir :
          /\ Executed(p)
          /\ p.executed_at = <<ret.at>>
          /\ p.approved_at # <<>>
          /\ p.approved_at[1] < ret.at

\* ------------------------------------------ the daemon's loop
\* the calls of the Executor for one plan that a run follows
MaxCalls == 3

\* run_daemon: `current_time - last_check >= check_interval`, with the
\* initial last_check of 0 that makes the first cycle due
CycleDue == last_check = <<>> \/ now - last_check[1] >= check_interval

\* a loop whose iteration may pass over a cycle that is due
SkipCycleDue ==
    /\ ret.op = "none"
    /\ pc = "cycle"
    /\ pc' = "poll"
    /\ UNCHANGED <<now, execution_history, seen_alerts, suppress_hours, plans_dir,
                   history_dir, dry_run, user_mode, last_check, created, executor_calls,
                   shell_calls, ret>>

\* run_daemon: an iteration in which no cycle is due goes on to the poll
SkipCycle ==
    /\ ret.op = "none"
    /\ pc = "cycle"
    /\ ~CycleDue
    /\ pc' = "poll"
    /\ UNCHANGED <<now, execution_history, seen_alerts, suppress_hours, plans_dir,
                   history_dir, dry_run, user_mode, last_check, created, executor_calls,
                   shell_calls, ret>>

\* run_daemon: process_signal_commands found no command (or raised, which is
\* only logged) and the next iteration begins; a poll is shorter than
\* check_interval, so the clock may read the same
PollIdle ==
    /\ ret.op = "none"
    /\ pc = "poll"
    /\ \A id \in DOMAIN executor_calls : executor_calls[id] < MaxCalls
    /\ pc' = "cycle"
    /\ UNCHANGED <<now, execution_history, seen_alerts, suppress_hours, plans_dir,
                   history_dir, dry_run, user_mode, last_check, created, executor_calls,
                   shell_calls, ret>>

DaemonNext ==
    \/ RunOnce
    \/ SkipCycle
    \/ SignalApprovePending
    \/ CliApprovePending
    \/ Return
    \/ PollIdle
    \/ Wait

SpecDaemon == AgentInit /\ [][DaemonNext]_vars

\* a step of the daemon that is a cycle which returned
CycleReturned == Handled("run_once") /\ ~ret'.raised

\* a step of the daemon that is a cycle which raised
CycleRaised == Handled("run_once") /\ ret'.raised

\* C40: a cycle that raises does not stop the daemon's loop; the poll of the
\* same iteration comes next and the cycle stays due, so that no later
\* iteration passes it over until a cycle has returned; a cycle starts no
\* earlier than check_interval after the last one that returned.
C40_DaemonLoop ==
    [][/\ CycleRaised => (pc' = "poll" /\ last_check' = last_check /\ CycleDue')
       /\ (CycleDue /\ ~CycleReturned) => CycleDue'
       /\ (pc = "cycle" /\ pc' = "poll" /\ ~Handled("run_once")) => ~CycleDue
       /\ CycleReturned => last_check' = <<now>>
       /\ (Handled("run_once") /\ last_check # <<>>) =>
              now >= last_check[1] + check_interval]_vars

\* a cycle raised at 12:05, the poll of that iteration ended at once, and
\* the cycle of the next iteration was run and raised again: the plan
\* approved at 12:00 has been handed to the Executor three times, and the
\* last cycle that returned is still that of 12:00
C40_RetriedNextIteration ==
    /\ ret.op = "run_once"
    /\ ret.raised
    /\ ret.at = 1
    /\ last_check = <<0>>
    /\ pc = "poll"
    /\ \E p \in plans_dir :
          /\ p.status = "approved"
          /\ p.approved_at = <<0>>
          /\ p.plan_id \in DOMAIN executor_calls
          /\ executor_calls[p.plan_id] = MaxCalls

====
